---- MODULE Spec2Model ----
(***************************************************************************)
(* Model of the Spotify API client core:                                   *)
(*   - HttpClient   (src/core/http/client.ts): retry, backoff, error       *)
(*                   transformation;                                       *)
(*   - AuthHandler  (src/core/auth/handler.ts): client-credential token    *)
(*                   cache;                                                *)
(*   - TokenManager (src/lib/auth/token-manager.ts): session token         *)
(*                   refresh with an in-flight promise;                    *)
(*   - the error layer (src/core/http/errors/*, src/services/              *)
(*                   error-handler.ts) and TrackService.getTrack over      *)
(*                   BaseService.request.                                  *)
(* Times are integers in milliseconds.  A JavaScript `undefined` number is *)
(* written Undefined, an absent string NoCode.                             *)
(***************************************************************************)
EXTENDS Integers, Sequences, FiniteSets, TLC

\* ------------------------------------------------------------------------
\* Bounds of the model
\* ------------------------------------------------------------------------
\* largest value of the `retries` option that is explored
MaxRetries == 3

\* concurrent callers of the auth handler
NumCallers == 2

\* token-endpoint calls the auth handler may issue in one run
MaxTokenCalls == 3

\* clock ticks of one run
MaxTicks == 3

\* sessions that use the token manager
NumSessions == 2

\* token-endpoint calls the token manager may issue in one run
MaxRefreshCalls == 2

\* classifications of one error object in one run
MaxInvocations == 3

\* AuthHandler instances constructed in one run
MaxHandlers == 2

\* logical requests in flight at once through one HttpClient
NumRequests == 2

\* ------------------------------------------------------------------------
\* Values
\* ------------------------------------------------------------------------
Undefined == -1
NoCode == "<none>"
NoHeader == -2

\* the cap of calculateBackoff, in ms
CapDelay == 10000

\* values of the `retryDelay` option that are explored (1000 is the default)
RetryDelays == {1000, 6000}

\* Math.random() * baseDelay lies in [0, baseDelay); sampled at both ends and
\* in the middle
JitterOf(baseDelay) == {0, baseDelay \div 2, baseDelay - 1}

Verbs == {"get", "post", "put", "delete"}

\* validateStatus options a caller passes: axios' default (2xx) or the
\* "200 or 404" predicate of the track service
ValidateOptions == {"default", "okOr404"}

Statuses == {200, 400, 401, 403, 404, 429, 500, 503}

\* message texts of upstream error bodies
Messages == {"Internal server error", "Invalid id: track not found"}

\* codeMap of SpotifyHttpError.deriveErrorCode, in key order
CodeMapKeys == <<"not found", "invalid id", "invalid playlist",
                 "rate limit", "network error", "invalid market">>

CodeMap(key) ==
    CASE key = "not found"        -> "NOT_FOUND"
      [] key = "invalid id"       -> "INVALID_ID"
      [] key = "invalid playlist" -> "INVALID_ID_FORMAT"
      [] key = "rate limit"       -> "RATE_LIMIT"
      [] key = "network error"    -> "NETWORK_ERROR"
      [] key = "invalid market"   -> "INVALID_MARKET"

\* lowerMessage.includes(key), tabulated for the message texts in use
Includes(msg, key) ==
    CASE msg = "Internal server error"       -> FALSE
      [] msg = "Resource not found"          -> key = "not found"
      [] msg = "Invalid id: track not found" -> key \in {"not found", "invalid id"}
      [] msg = "Invalid market code"         -> key \in {"invalid market", "market"}
      [] msg = "Invalid base62 id"           -> key = "base62"
      [] msg = "Network error occurred"      -> key = "network error"
      [] msg = "Request failed"              -> FALSE
      [] OTHER                               -> FALSE

deriveErrorCode(msg) ==
    LET hits == {i \in 1..Len(CodeMapKeys) : Includes(msg, CodeMapKeys[i])}
    IN  IF hits = {} THEN "UNKNOWN_ERROR"
        ELSE CodeMap(CodeMapKeys[CHOOSE i \in hits : \A j \in hits : i <= j])

\* new SpotifyHttpError(message, statusCode, code, data)
SpotifyHttpError(message, statusCode, code) ==
    [class      |-> "SpotifyHttpError",
     message    |-> message,
     statusCode |-> statusCode,
     code       |-> IF code = NoCode THEN deriveErrorCode(message) ELSE code,
     retryAfter |-> Undefined]

\* new SpotifyRateLimitError(message, retryAfter)
SpotifyRateLimitError(message, retryAfter) ==
    [class      |-> "SpotifyRateLimitError",
     message    |-> "Rate limited: " \o message,
     statusCode |-> 429,
     code       |-> "RATE_LIMIT_ERROR",
     retryAfter |-> retryAfter]

\* an error that is not one of the client's classes (AxiosError, TypeError..)
RawError(class, message) ==
    [class      |-> class,
     message    |-> message,
     statusCode |-> Undefined,
     code       |-> NoCode,
     retryAfter |-> Undefined]

NoError == RawError("<none>", "")

DomainErrorClasses == {"SpotifyHttpError", "SpotifyRateLimitError"}

\* ------------------------------------------------------------------------
\* Failures the response interceptor is handed
\* ------------------------------------------------------------------------
NoBody == [shape |-> "none", msg |-> "", code |-> NoCode]
OtherBody == [shape |-> "other", msg |-> "", code |-> NoCode]

\* bodies of the upstream error envelope {error: {message, status, code?}}
SpotifyBodies ==
    {[shape |-> "spotify", msg |-> m, code |-> c] :
        m \in Messages, c \in {NoCode, "SERVER_ERROR"}}

Bodies == {NoBody, OtherBody} \cup SpotifyBodies

\* values of the retry-after header, in seconds
RetryAfterHeaders == {NoHeader, 0, 30}

\* a response that validateStatus rejected
ResponseFailure(status, body, retryAfter) ==
    [hasConfig |-> TRUE, hasRequest |-> TRUE, hasResponse |-> TRUE,
     status |-> status, body |-> body, retryAfter |-> retryAfter,
     message |-> "Request failed with status code"]

\* the request was sent and no response came back (refused, DNS, timeout)
NoResponseFailure ==
    [hasConfig |-> TRUE, hasRequest |-> TRUE, hasResponse |-> FALSE,
     status |-> Undefined, body |-> NoBody, retryAfter |-> NoHeader,
     message |-> "connect ECONNREFUSED"]

\* an AxiosError raised before the request was sent
NotSentFailure ==
    [hasConfig |-> TRUE, hasRequest |-> FALSE, hasResponse |-> FALSE,
     status |-> Undefined, body |-> NoBody, retryAfter |-> NoHeader,
     message |-> "Unsupported protocol"]

\* an exception of the pipeline that carries no request config
RawFailure ==
    [hasConfig |-> FALSE, hasRequest |-> FALSE, hasResponse |-> FALSE,
     status |-> Undefined, body |-> NoBody, retryAfter |-> NoHeader,
     message |-> "Converting circular structure to JSON"]

NoFailure ==
    [hasConfig |-> FALSE, hasRequest |-> FALSE, hasResponse |-> FALSE,
     status |-> Undefined, body |-> NoBody, retryAfter |-> NoHeader,
     message |-> ""]

\* validateStatus of the request config
ValidateStatus(opt, status) ==
    IF opt = "default" THEN status >= 200 /\ status < 300
    ELSE status = 200 \/ status = 404

\* the failures one dispatch of a request can end in, per validateStatus
FailuresTable ==
    [opt \in ValidateOptions |->
    {ResponseFailure(s, b, NoHeader) :
        s \in {t \in Statuses : ~ValidateStatus(opt, t)} \ {429},
        b \in Bodies}
    \cup {ResponseFailure(429, b, h) : b \in Bodies, h \in RetryAfterHeaders}
    \cup {NoResponseFailure, NotSentFailure, RawFailure}]

\* the failures of a dispatch under the request's validateStatus
FailuresFor(opt) == FailuresTable[opt]

\* ------------------------------------------------------------------------
\* HttpClient: pure parts
\* ------------------------------------------------------------------------
isSpotifyErrorResponse(body) ==
    /\ body.shape = "spotify"
    /\ body.msg # ""

\* parseInt(headers['retry-after'] || '0', 10)
ParseRetryAfter(header) == IF header = NoHeader THEN 0 ELSE header

\* transformError without its last fallback: the failure is rethrown as is
transformError_Rethrow(f) ==
    IF f.hasResponse /\ f.body.shape # "none" /\ isSpotifyErrorResponse(f.body)
    THEN IF f.status = 429
         THEN SpotifyRateLimitError(f.body.msg, ParseRetryAfter(f.retryAfter))
         ELSE SpotifyHttpError(f.body.msg, f.status, f.body.code)
    ELSE IF f.hasRequest
         THEN SpotifyHttpError("Network error occurred", Undefined, "NETWORK_ERROR")
         ELSE RawError("Error", f.message)

transformError(f) ==
    IF f.hasResponse /\ f.body.shape # "none" /\ isSpotifyErrorResponse(f.body)
    THEN IF f.status = 429
         THEN SpotifyRateLimitError(f.body.msg, ParseRetryAfter(f.retryAfter))
         ELSE SpotifyHttpError(f.body.msg, f.status, f.body.code)
    ELSE IF f.hasRequest
         THEN SpotifyHttpError("Network error occurred", Undefined, "NETWORK_ERROR")
         ELSE SpotifyHttpError("Request failed", Undefined, "CLIENT_ERROR")

\* shouldRetryRequest that forgets the rate-limit status
shouldRetryRequest_No429(f, retryCount, retries) ==
    IF retryCount >= retries THEN FALSE
    ELSE IF ~f.hasResponse THEN TRUE
    ELSE f.status >= 500

\* shouldRetryRequest with the budget test off by one
shouldRetryRequest_OffByOne(f, retryCount, retries) ==
    IF retryCount > retries THEN FALSE
    ELSE IF ~f.hasResponse THEN TRUE
    ELSE f.status >= 500 \/ f.status = 429

shouldRetryRequest(f, retryCount, retries) ==
    IF retryCount >= retries THEN FALSE
    ELSE IF ~f.hasResponse THEN TRUE
    ELSE f.status >= 500 \/ f.status = 429

RECURSIVE Pow2(_)
Pow2(k) == IF k = 0 THEN 1 ELSE 2 * Pow2(k - 1)

Min(a, b) == IF a <= b THEN a ELSE b

\* calculateBackoff without the cap
calculateBackoff_NoCap(baseDelay, retryCount, jitter) ==
    baseDelay * Pow2(retryCount) + jitter

calculateBackoff(baseDelay, retryCount, jitter) ==
    LET exponentialDelay == baseDelay * Pow2(retryCount)
    IN  Min(exponentialDelay + jitter, CapDelay)

\* __retryCount written to the config before a retry
\* the counter bumped twice per retry
NextRetryCount_Twice(retryCount) == retryCount + 2

NextRetryCount(retryCount) == retryCount + 1

\* what handleRequestError does with a failure: "retry" or "throw"
handleRequestError(f, retryCount, retries) ==
    IF ~f.hasConfig THEN "throw"
    ELSE IF shouldRetryRequest(f, retryCount, retries) THEN "retry"
    ELSE "throw"

\* the catch block of get/post/put/delete
VerbCatch(err, f) ==
    IF err.class = "AxiosError" THEN transformError(f) ELSE err

\* ------------------------------------------------------------------------
\* ErrorFactory: pure parts
\* ------------------------------------------------------------------------
\* determineErrorCode without the test for server errors
determineErrorCode_NoServerError(f) ==
    IF ~f.hasResponse THEN "NETWORK_ERROR"
    ELSE CASE f.status = 429 -> "RATE_LIMIT_ERROR"
           [] f.status = 400 -> "VALIDATION_ERROR"
           [] f.status = 401 -> "AUTHENTICATION_ERROR"
           [] f.status = 404 -> "NOT_FOUND"
           [] OTHER -> "UNKNOWN_ERROR"

\* determineErrorCode(error): the code by the status of the response
determineErrorCode(f) ==
    IF ~f.hasResponse THEN "NETWORK_ERROR"
    ELSE CASE f.status = 429 -> "RATE_LIMIT_ERROR"
           [] f.status = 400 -> "VALIDATION_ERROR"
           [] f.status = 401 -> "AUTHENTICATION_ERROR"
           [] f.status = 404 -> "NOT_FOUND"
           [] OTHER -> IF f.status >= 500 THEN "SERVER_ERROR"
                       ELSE "UNKNOWN_ERROR"

\* ------------------------------------------------------------------------
\* AuthHandler: pure parts
\* ------------------------------------------------------------------------
Callers == 1..NumCallers

\* one step of the clock, ms
TickMs == 30000

\* bufferTime of AuthHandler.isTokenExpired, ms
BufferTime == 60 * 1000

\* ERROR_CODES.AUTHENTICATION
AUTHENTICATION == "AUTHENTICATION_ERROR"

\* expires_in values the token endpoint answers with, seconds
ExpiresIn == {90, 3600}

\* this.token = null
NoToken == [accessToken |-> 0, expiresAt |-> 0]

\* the AuthToken fetchNewToken builds from a response received at time t
AuthToken(serial, t, expires_in) ==
    [accessToken |-> serial, expiresAt |-> t + (expires_in * 1000)]

isTokenExpired(tok, t) ==
    IF tok = NoToken THEN TRUE
    ELSE t + BufferTime >= tok.expiresAt

\* the ways a token request fails: no response, a non-2xx response, a 2xx
\* response without access_token
AuthFailureKinds == {"network", "status401", "status500", "noAccessToken"}

\* the Error the catch block of fetchNewToken throws
AuthFailedError(kind) ==
    RawError("Error",
        CASE kind = "status401" -> "Authentication failed: 401 Unauthorized"
          [] kind = "status500" -> "Authentication failed: 500 Internal Server Error"
          [] OTHER -> "Authentication failed: undefined undefined")

\* ------------------------------------------------------------------------
\* TokenManager and the jwt callback: pure parts
\* ------------------------------------------------------------------------
Sessions == 1..NumSessions

\* the margin of TokenManager.shouldRefreshToken, ms
RefreshMargin == 5 * 60 * 1000

\* expires_in values of sign-in and refresh answers, seconds
SessionExpiresIn == {300, 330, 3600}

\* an access token of the upstream: whose refresh token (or sign-in) it was
\* issued for, and a serial number; <<0, 0>> is `undefined`
NoAccessToken == <<0, 0>>

\* the token of a session that has not signed in
NoJwt ==
    [accessToken |-> NoAccessToken, refreshToken |-> 0,
     accessTokenExpires |-> 0, error |-> NoCode]

\* createTokenObject(accessToken, refreshToken, expiresIn) at time t
createTokenObject(accessToken, refreshToken, expiresIn, t) ==
    [accessToken |-> accessToken, refreshToken |-> refreshToken,
     accessTokenExpires |-> t + expiresIn * 1000, error |-> NoCode]

shouldRefreshToken(tok, t) ==
    LET expiresIn == tok.accessTokenExpires - t
    IN  expiresIn < RefreshMargin

\* the answers of the token endpoint to a refresh
RefreshOutcomes ==
    {[kind |-> "ok", expires_in |-> e, hasAccessToken |-> h] :
        e \in {3600}, h \in BOOLEAN}
    \cup {[kind |-> k, expires_in |-> 0, hasAccessToken |-> FALSE] :
        k \in {"network", "status400", "status401"}}

\* new SpotifyHttpError(message, statusCode, code) of spotify-errors.ts
SpotifyError(message, statusCode, code) ==
    [class      |-> "SpotifyHttpError",
     message    |-> message,
     statusCode |-> statusCode,
     code       |-> code,
     retryAfter |-> Undefined]

\* what performTokenRefresh(tok) settles with for an answer received at t:
\* a record [ok, value, error]
performTokenRefresh(tok, outcome, serial, t) ==
    IF outcome.kind = "ok"
    THEN [ok |-> TRUE,
          value |-> [tok EXCEPT
              !.accessToken = IF outcome.hasAccessToken
                              THEN <<tok.refreshToken, serial>>
                              ELSE NoAccessToken,
              !.accessTokenExpires = t + outcome.expires_in * 1000],
          error |-> NoError]
    ELSE [ok |-> FALSE,
          value |-> NoJwt,
          error |->
              CASE outcome.kind = "status400" ->
                     SpotifyError("Failed to refresh token", 400, AUTHENTICATION)
                [] outcome.kind = "status401" ->
                     SpotifyError("Failed to refresh token", 401, AUTHENTICATION)
                [] OTHER ->
                     SpotifyError("Failed to refresh access token", 401,
                                  AUTHENTICATION)]

\* a promise of performTokenRefresh that has not settled
PendingPromise(tok) ==
    [state |-> "pending", input |-> tok, value |-> NoJwt, error |-> NoError]

\* what the jwt callback returns for a settled refreshToken promise
JwtResult(tok, promise) ==
    IF promise.state = "fulfilled" THEN promise.value
    ELSE [tok EXCEPT !.error = promise.error.code]

\* ------------------------------------------------------------------------
\* Error classes of errors/spotify-errors.ts and the ServiceErrorHandler:
\* pure parts
\* ------------------------------------------------------------------------
\* Errors at the service layer. `module` is the file that declares the class
\* of the object: client.ts and the services import './errors', which is the
\* file errors.ts, while error-handler.ts and base.service.ts import
\* './errors/spotify-errors'; an instanceof test against a class of one file
\* is false for an object of the class of the same name of the other file.
\* dataError is data.error.message, ctx is data.contextData as a set of
\* <<key, value>> pairs.
ErrorsTs == "errors.ts"
SpotifyErrorsTs == "errors/spotify-errors.ts"
PlainJs == "<js>"

NoContext == {}

ServiceError(module, class, message, statusCode, code, retryAfter, dataError, ctx) ==
    [module     |-> module,
     class      |-> class,
     message    |-> message,
     statusCode |-> statusCode,
     code       |-> code,
     retryAfter |-> retryAfter,
     dataError  |-> dataError,
     ctx        |-> ctx]

NoServiceError ==
    ServiceError("<none>", "<none>", "", Undefined, NoCode, Undefined, "",
                 NoContext)

\* new SpotifyHttpError(message, statusCode, code, data) of spotify-errors.ts
\* (an omitted code is ERROR_CODES.UNKNOWN)
NewSpotifyHttpError(message, statusCode, code, dataError, ctx) ==
    ServiceError(SpotifyErrorsTs, "SpotifyHttpError", message, statusCode,
                 IF code = NoCode THEN "UNKNOWN_ERROR" ELSE code,
                 Undefined, dataError, ctx)

\* new SpotifyRateLimitError(message, retryAfter, data) of spotify-errors.ts
NewSpotifyRateLimitError(message, retryAfter, dataError, ctx) ==
    ServiceError(SpotifyErrorsTs, "SpotifyRateLimitError",
                 "Rate limited: " \o message, 429, "RATE_LIMIT_ERROR",
                 retryAfter, dataError, ctx)

\* new SpotifyAuthenticationError(message, authType)
SpotifyAuthenticationError(message) ==
    ServiceError(SpotifyErrorsTs, "SpotifyAuthenticationError", message, 401,
                 "AUTHENTICATION_ERROR", Undefined, "",
                 {<<"timestamp", "t">>, <<"additionalData", "authType">>})

\* new SpotifyValidationError(message, validationDetails)
SpotifyValidationError(message) ==
    ServiceError(SpotifyErrorsTs, "SpotifyValidationError", message, 400,
                 "VALIDATION_ERROR", Undefined, "",
                 {<<"timestamp", "t">>, <<"validationErrors", "details">>})

\* instanceof that takes the classes of the same name of the two files for
\* one class
InstanceOfSpotifyHttpError_ByName(e) == e.module \in {ErrorsTs, SpotifyErrorsTs}

\* error instanceof SpotifyHttpError, in a file that imports spotify-errors
InstanceOfSpotifyHttpError(e) == e.module = SpotifyErrorsTs

\* {...a, ...b} on contexts: the keys of b win
Spread(a, b) ==
    {p \in a : ~\E q \in b : q[1] = p[1]} \cup b

HasKey(ctx, key) == \E p \in ctx : p[1] = key /\ p[2] # ""

\* context[key], "undefined" when the key is absent
Get(ctx, key) ==
    IF \E p \in ctx : p[1] = key
    THEN (CHOOSE p \in ctx : p[1] = key)[2]
    ELSE "undefined"

\* codeMap of deriveErrorCode of spotify-errors.ts, in key order
SpotifyErrorsCodeMapKeys ==
    <<"not found", "invalid id", "rate limit", "network error",
      "invalid market", "unauthorized", "forbidden">>

SpotifyErrorsCodeMap(key) ==
    CASE key = "not found"      -> "NOT_FOUND"
      [] key = "invalid id"     -> "INVALID_ID_FORMAT"
      [] key = "rate limit"     -> "RATE_LIMIT_ERROR"
      [] key = "network error"  -> "NETWORK_ERROR"
      [] key = "invalid market" -> "INVALID_MARKET"
      [] key = "unauthorized"   -> "AUTHENTICATION_ERROR"
      [] key = "forbidden"      -> "AUTHENTICATION_ERROR"

\* deriveErrorCode(message) of spotify-errors.ts
deriveErrorCodeOfSpotifyErrors(msg) ==
    LET keys == SpotifyErrorsCodeMapKeys
        hits == {i \in 1..Len(keys) : Includes(msg, keys[i])}
    IN  IF hits = {} THEN "UNKNOWN_ERROR"
        ELSE SpotifyErrorsCodeMap(
                 keys[CHOOSE i \in hits : \A j \in hits : i <= j])

\* createFromError that wraps an error which already carries context data
\* into a new, unclassified one instead of merging the context into it
createFromError_Rewraps(error, context) ==
    IF InstanceOfSpotifyHttpError(error)
    THEN IF error.ctx # NoContext
         THEN NewSpotifyHttpError(error.message, Undefined, "UNKNOWN_ERROR",
                                  "", Spread(error.ctx, context))
         ELSE [error EXCEPT !.ctx = Spread(error.ctx, context)]
    ELSE NewSpotifyHttpError(error.message, Undefined, "UNKNOWN_ERROR", "",
                             context)

\* SpotifyHttpError.createFromError(error, context); for an error that is
\* already of the class the result is that very object, with its
\* data.contextData rewritten
createFromError(error, context) ==
    IF InstanceOfSpotifyHttpError(error)
    THEN [error EXCEPT !.ctx = Spread(error.ctx, context)]
    ELSE IF error.class = "SpotifyErrorResponse"
    THEN NewSpotifyHttpError(
             IF error.dataError = "" THEN "Unknown Spotify error"
             ELSE error.dataError,
             error.statusCode,
             deriveErrorCodeOfSpotifyErrors(error.dataError),
             error.dataError, context)
    ELSE IF error.module \in {ErrorsTs, PlainJs}
    THEN NewSpotifyHttpError(error.message, Undefined, "UNKNOWN_ERROR", "",
                             context)
    ELSE NewSpotifyHttpError("Unknown error occurred", Undefined,
                             "UNKNOWN_ERROR", "", context)

Timestamped(context) == Spread(context, {<<"timestamp", "t">>})

handleNotFoundError(context) ==
    NewSpotifyHttpError(
        Get(context, "resourceType") \o " not found: "
            \o Get(context, "resourceId"),
        404, "NOT_FOUND", "", Timestamped(context))

handleRateLimitError(originalError, context) ==
    NewSpotifyRateLimitError(originalError.message, originalError.retryAfter,
                             originalError.dataError, Timestamped(context))

handleBadRequestError(errorMessage, context) ==
    IF Includes(errorMessage, "market")
    THEN SpotifyValidationError("Invalid market code provided")
    ELSE IF Includes(errorMessage, "invalid id")
            \/ Includes(errorMessage, "base62")
    THEN SpotifyValidationError(
             "Invalid " \o Get(context, "resourceType") \o " ID format")
    ELSE SpotifyValidationError(
             "Invalid " \o Get(context, "resourceType") \o " request")

handleAuthenticationError(context) ==
    SpotifyAuthenticationError(
        "Authentication failed. Please check your credentials.")

handleAuthorizationError(context) ==
    SpotifyAuthenticationError("Insufficient permissions for this operation")

handleGenericError(originalError, context) ==
    NewSpotifyHttpError(
        "Failed to process " \o Get(context, "resourceType")
            \o " request: " \o originalError.message,
        originalError.statusCode, originalError.code,
        originalError.dataError, Timestamped(context))

\* ServiceErrorHandler.handleError(error, context): the error it throws
handleError(error, context) ==
    LET spotifyError == IF InstanceOfSpotifyHttpError(error) THEN error
                        ELSE createFromError(error, NoContext)
        errorMessage == spotifyError.dataError
    IN  CASE spotifyError.statusCode = 404 -> handleNotFoundError(context)
          [] spotifyError.statusCode = 429 ->
                 handleRateLimitError(spotifyError, context)
          [] spotifyError.statusCode = 400 ->
                 handleBadRequestError(errorMessage, context)
          [] spotifyError.statusCode = 401 ->
                 handleAuthenticationError(context)
          [] spotifyError.statusCode = 403 ->
                 handleAuthorizationError(context)
          [] OTHER -> handleGenericError(spotifyError, context)

\* values of ERROR_CODES
ERROR_CODES ==
    {"AUTHENTICATION_ERROR", "AUTH_ERROR", "TOKEN_EXPIRED",
     "VALIDATION_ERROR", "INVALID_ID_FORMAT", "INVALID_METHOD",
     "INVALID_MARKET", "INVALID_RESPONSE", "NOT_FOUND", "RATE_LIMIT_ERROR",
     "RATE_LIMIT_EXCEEDED", "NETWORK_ERROR", "SERVER_ERROR", "UNKNOWN_ERROR"}

RegistryEntry(code, isRetryable, severity, statusCode) ==
    [code |-> code, isRetryable |-> isRetryable, severity |-> severity,
     statusCode |-> statusCode]

\* ERROR_REGISTRY of errors/types.ts
ERROR_REGISTRY ==
    ("AUTHENTICATION_ERROR" :>
        RegistryEntry("AUTHENTICATION_ERROR", FALSE, "high", 401))
    @@ ("AUTH_ERROR" :> RegistryEntry("AUTH_ERROR", FALSE, "high", 401))
    @@ ("TOKEN_EXPIRED" :> RegistryEntry("TOKEN_EXPIRED", TRUE, "medium", 401))
    @@ ("VALIDATION_ERROR" :>
        RegistryEntry("VALIDATION_ERROR", FALSE, "high", 400))
    @@ ("INVALID_ID_FORMAT" :>
        RegistryEntry("INVALID_ID_FORMAT", FALSE, "high", 400))
    @@ ("INVALID_METHOD" :> RegistryEntry("INVALID_METHOD", FALSE, "high", 405))
    @@ ("INVALID_MARKET" :>
        RegistryEntry("INVALID_MARKET", FALSE, "medium", 400))
    @@ ("INVALID_RESPONSE" :>
        RegistryEntry("INVALID_RESPONSE", FALSE, "high", 500))
    @@ ("NOT_FOUND" :> RegistryEntry("NOT_FOUND", FALSE, "medium", 404))
    @@ ("RATE_LIMIT_ERROR" :>
        RegistryEntry("RATE_LIMIT_ERROR", TRUE, "medium", 429))
    @@ ("RATE_LIMIT_EXCEEDED" :>
        RegistryEntry("RATE_LIMIT_EXCEEDED", TRUE, "medium", 429))
    @@ ("NETWORK_ERROR" :> RegistryEntry("NETWORK_ERROR", TRUE, "high", 0))
    @@ ("SERVER_ERROR" :> RegistryEntry("SERVER_ERROR", TRUE, "high", 500))
    @@ ("UNKNOWN_ERROR" :> RegistryEntry("UNKNOWN_ERROR", FALSE, "high", 500))

\* values of ERROR_CODES of errors/constants.ts
ERROR_CODES_OfConstantsTs ==
    {"RATE_LIMIT_ERROR", "VALIDATION_ERROR", "NETWORK_ERROR",
     "AUTHENTICATION_ERROR", "NOT_FOUND", "INVALID_ID_FORMAT",
     "INVALID_MARKET", "SERVER_ERROR", "UNKNOWN_ERROR"}

\* ERROR_REGISTRY of errors/constants.ts, the one errors/index.ts exports
ERROR_REGISTRY_OfConstantsTs ==
    ("RATE_LIMIT_ERROR" :>
        RegistryEntry("RATE_LIMIT_ERROR", TRUE, "medium", 429))
    @@ ("VALIDATION_ERROR" :>
        RegistryEntry("VALIDATION_ERROR", FALSE, "high", 400))
    @@ ("NETWORK_ERROR" :> RegistryEntry("NETWORK_ERROR", TRUE, "high", 0))
    @@ ("AUTHENTICATION_ERROR" :>
        RegistryEntry("AUTHENTICATION_ERROR", FALSE, "high", 401))
    @@ ("NOT_FOUND" :> RegistryEntry("NOT_FOUND", FALSE, "medium", 404))

\* registry[code] === undefined
NoEntry == RegistryEntry(NoCode, FALSE, "<none>", Undefined)

\* ERROR_REGISTRY[code] of the file named
RegistryLookup(file, code) ==
    LET registry == IF file = "types.ts" THEN ERROR_REGISTRY
                    ELSE ERROR_REGISTRY_OfConstantsTs
    IN  IF code \in DOMAIN registry THEN registry[code] ELSE NoEntry

\* the enumeration of the file named
CodesOf(file) ==
    IF file = "types.ts" THEN ERROR_CODES ELSE ERROR_CODES_OfConstantsTs

RegistryFiles == {"types.ts", "constants.ts"}

\* SpotifyHttpError.getMetadata()
getMetadata(error) ==
    IF error.code \in DOMAIN ERROR_REGISTRY THEN ERROR_REGISTRY[error.code]
    ELSE ERROR_REGISTRY["UNKNOWN_ERROR"]

isRetryableError(error) ==
    IF ~InstanceOfSpotifyHttpError(error) THEN FALSE
    ELSE getMetadata(error).isRetryable

\* SpotifyHttpError.toNormalizedError() at time t; a statusCode that is
\* undefined or 0 is falsy, a context that was never set is undefined
toNormalizedError(error, t) ==
    LET metadata == getMetadata(error)
    IN  [code        |-> error.code,
         message     |-> error.message,
         statusCode  |-> IF error.statusCode \in {Undefined, 0}
                         THEN metadata.statusCode ELSE error.statusCode,
         context     |-> IF error.ctx = NoContext
                         THEN {<<"timestamp", "t" \o ToString(t)>>}
                         ELSE error.ctx,
         isRetryable |-> metadata.isRetryable,
         timestamp   |-> "t" \o ToString(t)]

\* ------------------------------------------------------------------------
\* Market codes.  A code is the sequence of its characters.
\* ------------------------------------------------------------------------
UpperLetters == {"B", "G", "S", "U", "X"}
LowerLetters == {"b", "g", "s", "u", "x"}

toLowerCase(ch) ==
    CASE ch = "B" -> "b" [] ch = "G" -> "g" [] ch = "S" -> "s"
      [] ch = "U" -> "u" [] ch = "X" -> "x" [] OTHER -> ch

\* MARKETS of the test constants: three markets and the placeholder
MARKETS ==
    [US |-> <<"U", "S">>, GB |-> <<"G", "B">>, INVALID |-> <<"X", "X">>]

\* the market arguments in use; <<>> is an omitted market
MarketInputs ==
    {<<>>, MARKETS.US, MARKETS.GB, MARKETS.INVALID, <<"u", "s">>,
     <<"U", "S", "X">>, <<"U">>}

\* /^[A-Z]{2}$/.test(market)
TwoUpperCaseLetters(market) ==
    /\ Len(market) = 2
    /\ \A i \in 1..Len(market) : market[i] \in UpperLetters

\* Intl.getCanonicalLocales(tag) for a tag that is one subtag of letters:
\* a subtag of two or three letters is a well-formed language subtag and is
\* returned in lower case, whether or not any language or region bears it.
\* (Other tags are never passed: the caller tests the pattern first.)
getCanonicalLocales(tag) ==
    IF Len(tag) \in {2, 3}
    THEN <<[i \in 1..Len(tag) |-> toLowerCase(tag[i])]>>
    ELSE <<>>

\* ServiceErrorHandler.validateMarketCode / TrackService.isValidMarketCode
validateMarketCode(market) ==
    IF ~TwoUpperCaseLetters(market) THEN FALSE
    ELSE Len(getCanonicalLocales(market)) > 0

\* ------------------------------------------------------------------------
\* BaseService and TrackService: pure parts
\* ------------------------------------------------------------------------
TrackIds == {"7tFiyTwD0nx5a1eklYtX2J"}

\* the context of the catch block of BaseService.request
RequestContext(resourceType) ==
    {<<"resourceType", resourceType>>, <<"timestamp", "t">>}

\* BaseService.createErrorContext(resourceId, additionalContext); a value
\* that is undefined is written ""
createErrorContext(resourceType, resourceId, additionalContext) ==
    {<<"resourceType", resourceType>>, <<"resourceId", resourceId>>,
     <<"timestamp", "t">>, <<"additionalContext", additionalContext>>}

\* the context getTrack passes to handleError
TrackContext(id, market) ==
    createErrorContext("track", id, IF market # <<>> THEN "market" ELSE "")

\* the error HttpClient rejected with, as the service layer receives it:
\* an object of a class of errors.ts (data is the response body for an
\* upstream envelope), or a plain JavaScript error
FromTransport(e, f) ==
    ServiceError(IF e.class \in DomainErrorClasses THEN ErrorsTs ELSE PlainJs,
                 e.class, e.message, e.statusCode, e.code, e.retryAfter,
                 IF e.class = "SpotifyHttpError" /\ f.hasResponse
                 THEN f.body.msg ELSE "",
                 NoContext)

\* new SpotifyHttpError('Invalid market code provided', 400,
\* ERROR_CODES.INVALID_MARKET, {market}) of prepareRequestParams
InvalidMarketError ==
    ServiceError(ErrorsTs, "SpotifyHttpError", "Invalid market code provided",
                 400, "INVALID_MARKET", Undefined, "", NoContext)

\* the bodies a response that validateStatus accepted can carry
TrackResponses ==
    {[status |-> 200, truthy |-> {"id", "name", "type", "uri"},
      type |-> "track"],
     [status |-> 200, truthy |-> {"id", "type"}, type |-> "track"],
     [status |-> 200, truthy |-> {"id", "name", "type", "uri"},
      type |-> "album"],
     [status |-> 404, truthy |-> {"error"}, type |-> "undefined"]}

\* no response: nothing was returned
NoResponse == [status |-> 0, truthy |-> {}, type |-> "<none>"]

\* the responses handed to the validation: those of the track endpoint and
\* the object {id: "x"}
ResponseInputs ==
    TrackResponses \cup {[status |-> 200, truthy |-> {"id"}, type |-> "undefined"]}

\* the lists of required fields in use
FieldInputs == {{"id", "name"}, {"id", "name", "type", "uri"}, {"id"}, {}}

\* ServiceErrorHandler.validateResponse(response, requiredFields, context):
\* the error it throws, NoServiceError when it returns the response
validateResponse(response, requiredFields, context) ==
    LET missingFields == {field \in requiredFields :
                             field \notin response.truthy}
    IN  IF missingFields # {}
        THEN SpotifyValidationError(
                 "Invalid " \o Get(context, "resourceType")
                     \o " response: missing required fields")
        ELSE NoServiceError

\* TrackService.validateTrackResponse(track): the error it throws
validateTrackResponse(track) ==
    LET missing == validateResponse(track, {"id", "name", "type", "uri"},
                                    createErrorContext("track", "", ""))
    IN  IF missing # NoServiceError THEN missing
        ELSE IF track.type \notin {"track", "episode"}
        THEN ServiceError(ErrorsTs, "SpotifyHttpError",
                          "Invalid response: expected track type, got "
                              \o track.type,
                          500, "INVALID_RESPONSE", Undefined, "", NoContext)
        ELSE NoServiceError

\* ------------------------------------------------------------------------
\* AuthHandler: the configuration and its validation

DEFAULT_TOKEN_ENDPOINT == "https://accounts.spotify.com/api/token"

\* a string that is falsy in JavaScript: empty or absent
Falsy(str) == str \in {"", NoCode}

AuthConfig(clientId, clientSecret, tokenEndpoint) ==
    [clientId |-> clientId, clientSecret |-> clientSecret,
     tokenEndpoint |-> tokenEndpoint]

\* every combination of empty and present fields, and the configuration
\* whose optional tokenEndpoint is absent
AuthConfigs ==
    {AuthConfig(id, secret, endpoint) :
        id \in {"", "client-id"},
        secret \in {"", "client-secret"},
        endpoint \in {"", DEFAULT_TOKEN_ENDPOINT}}
    \cup {AuthConfig("client-id", "client-secret", NoCode)}

NoThrow == [name |-> "<none>", message |-> "", fields |-> <<>>]

missingFields(config) ==
    (IF Falsy(config.clientId) THEN <<"clientId">> ELSE <<>>)
    \o (IF Falsy(config.clientSecret) THEN <<"clientSecret">> ELSE <<>>)
    \o (IF Falsy(config.tokenEndpoint) THEN <<"tokenEndpoint">> ELSE <<>>)

\* a validation that tests the two credentials only
validateConfig_CredentialsOnly(config) ==
    IF Falsy(config.clientId) \/ Falsy(config.clientSecret)
    THEN [name |-> "Error",
          message |-> "Invalid auth configuration: missing fields: ",
          fields |-> missingFields(config)]
    ELSE NoThrow

\* AuthHandler.validateConfig: the Error it throws, NoThrow when it returns
validateConfig(config) ==
    IF Len(missingFields(config)) > 0
    THEN [name |-> "Error",
          message |-> "Invalid auth configuration: missing fields: ",
          fields |-> missingFields(config)]
    ELSE NoThrow

NotValidated == [thrown |-> NoThrow, returned |-> AuthConfig("", "", "")]

\* core/auth/config.ts validateAuthConfig: throws for missing credentials,
\* fills in the default token endpoint
validateAuthConfig(config) ==
    IF Falsy(config.clientId) \/ Falsy(config.clientSecret)
    THEN [thrown |-> [name |-> "Error",
                      message |-> "Missing required Spotify credentials",
                      fields |-> <<>>],
          returned |-> AuthConfig("", "", "")]
    ELSE [thrown |-> NoThrow,
          returned |-> [config EXCEPT !.tokenEndpoint =
                            IF Falsy(config.tokenEndpoint)
                            THEN DEFAULT_TOKEN_ENDPOINT
                            ELSE config.tokenEndpoint]]

\* ------------------------------------------------------------------------
\* PlaylistService: pure parts.  An id is the sequence of its characters
\* together with its text.
\* ------------------------------------------------------------------------
\* the characters of [a-zA-Z0-9] that occur in the ids in use
AlphaNumerics ==
    {"0", "2", "9", "A", "K", "N", "T", "a", "c", "d", "i", "l", "n", "q",
     "u", "v", "y", "z"}

Chars21 ==
    <<"0", "y", "9", "u", "T", "z", "K", "9", "c", "N", "A", "c", "2", "2",
      "a", "a", "a", "a", "a", "a", "a">>

\* the ids of the playlist tests: a well-formed one that no playlist bears
\* and three malformed ones
PlaylistIds ==
    {[text |-> "0y9uTzK9cNAc22aaaaaaaq", chars |-> Chars21 \o <<"q">>],
     [text |-> "invalid_id",
      chars |-> <<"i", "n", "v", "a", "l", "i", "d", "_", "i", "d">>],
     [text |-> "0y9uTzK9cNAc22aaaaaaaq!", chars |-> Chars21 \o <<"q", "!">>],
     [text |-> "0y9uTzK9cNAc22aaaaaaa", chars |-> Chars21]}

NoPlaylistId == [text |-> "", chars |-> <<>>]

\* /^[a-zA-Z0-9]{22}$/.test(id)
IsPlaylistIdFormat(id) ==
    /\ Len(id.chars) = 22
    /\ \A i \in 1..Len(id.chars) : id.chars[i] \in AlphaNumerics

\* PlaylistService.createError(code, message, resourceId): the status is 400
\* whatever the code
createError(code, message, resourceId) ==
    ServiceError(ErrorsTs, "SpotifyHttpError", message, 400, code, Undefined,
                 "",
                 {<<"resourceType", "playlist">>, <<"resourceId", resourceId>>,
                  <<"timestamp", "t">>})

\* message.includes(text) (case-sensitive), for the messages the playlist
\* service rejects with and the texts the tests look for
MessageContains(message, text) ==
    \/ /\ text = "Invalid playlist ID"
       /\ \E id \in PlaylistIds : message = "Invalid playlist ID: " \o id.text
    \/ /\ text = "Playlist not found"
       /\ \E id \in PlaylistIds : message = "Playlist not found: " \o id.text

\* the bodies a response that validateStatus accepted can carry
PlaylistResponses ==
    {[status |-> 200, truthy |-> {"id", "type", "tracks"}, type |-> "playlist"],
     [status |-> 200, truthy |-> {"id", "type"}, type |-> "playlist"],
     [status |-> 200, truthy |-> {"id", "type", "tracks"}, type |-> "album"],
     [status |-> 200, truthy |-> {}, type |-> "undefined"]}

\* PlaylistService.validatePlaylistResponse(playlist): the error it throws
validatePlaylistResponse(playlist) ==
    LET missing == validateResponse(playlist, {"id", "type", "tracks"},
                                    createErrorContext("playlist", "", ""))
    IN  IF missing # NoServiceError THEN missing
        ELSE IF playlist.type # "playlist"
        THEN createError("INVALID_RESPONSE",
                         "Invalid type: expected playlist, got "
                             \o playlist.type, "")
        ELSE NoServiceError

\* the `params` getUserPlaylists is called with; Undefined is a field left
\* out
PaginationParams ==
    {[limit |-> l, offset |-> o] : l \in {Undefined, 0, 20, 51},
                                   o \in {Undefined, 0, 20, -5}}

\* PlaylistService.validatePaginationParams(params): the error it throws;
\* `validated.limit &&` and `validated.offset &&` skip undefined and 0
validatePaginationParams(params) ==
    IF /\ params.limit \notin {Undefined, 0}
       /\ (params.limit < 1 \/ params.limit > 50)
    THEN createError("VALIDATION_ERROR", "Limit must be between 1 and 50", "")
    ELSE IF params.offset \notin {Undefined, 0} /\ params.offset < 0
    THEN createError("VALIDATION_ERROR", "Offset cannot be negative", "")
    ELSE NoServiceError

\* a page of playlists as the API sends it: the fields the object has, those
\* whose value is truthy (0 is not, [] is) and the types of its items
PagedResponse(present, truthy, itemTypes) ==
    [status |-> 200, present |-> present, truthy |-> truthy,
     itemTypes |-> itemTypes]

PagedFields == {"items", "limit", "offset", "total"}

\* a later page, the first page (offset 0), a user without playlists
\* (total 0, items []), a page with a foreign item and a page without total
PagedResponses ==
    {PagedResponse(PagedFields, PagedFields, {"playlist"}),
     PagedResponse(PagedFields, {"items", "limit", "total"}, {"playlist"}),
     PagedResponse(PagedFields, {"items", "limit", "offset"}, {}),
     PagedResponse(PagedFields, {"items", "limit"}, {}),
     PagedResponse(PagedFields, PagedFields, {"playlist", "album"}),
     PagedResponse({"items", "limit", "offset"}, {"items", "limit", "offset"},
                   {"playlist"})}

\* PlaylistService.validatePagedResponse(response): the error it throws
validatePagedResponse(response) ==
    LET missing == validateResponse(response, PagedFields,
                                    createErrorContext("playlist", "", ""))
    IN  IF missing # NoServiceError THEN missing
        ELSE IF \E type \in response.itemTypes : type # "playlist"
        THEN createError("INVALID_RESPONSE",
                         "Invalid type: expected playlist, got album", "")
        ELSE NoServiceError

\* ------------------------------------------------------------------------
\* HttpClient: request configs, headers and log entries
\* ------------------------------------------------------------------------
Redacted == "[REDACTED]"

\* key.toLowerCase() for the header names in use
HeaderLower(key) ==
    CASE key = "Authorization" -> "authorization"
      [] key = "Cookie"        -> "cookie"
      [] key = "X-API-Key"     -> "x-api-key"
      [] key = "Content-Type"  -> "content-type"
      [] OTHER                 -> key

\* the headers whose values are credentials
IsSensitiveHeader(key) ==
    HeaderLower(key) \in {"authorization", "cookie", "x-api-key"}

\* the text of the access token with a serial number
AccessTokenText(serial) == "token" \o ToString(serial)

\* AuthHandler.getAuthHeader(): {Authorization: `Bearer ${accessToken}`}
getAuthHeader(accessToken) == {<<"Authorization", "Bearer " \o accessToken>>}

\* headers a caller passes in options.headers
OptionHeaders ==
    {{},
     {<<"Cookie", "sid=1">>},
     {<<"cookie", "sid=1">>},
     {<<"X-API-Key", "key1">>},
     {<<"x-api-key", "key1">>},
     {<<"authorization", "Basic abc">>}}

\* sensitiveHeaders of HttpClient.sanitizeHeaders
sensitiveHeaders == {"authorization", "cookie", "x-api-key"}

\* HttpClient.sanitizeHeaders(headers): `header in sanitized` is a test for
\* the property of exactly that name
sanitizeHeaders(headers) ==
    {<<p[1], IF p[1] \in sensitiveHeaders THEN Redacted ELSE p[2]>> :
        p \in headers}

\* the headers of a response, as the adapter delivers them (lower case)
ResponseHeaders == {<<"content-type", "application/json">>}

\* the meta object of a log call of the interceptors
LogEntry(kind, headers) == [kind |-> kind, headers |-> headers]

\* what goes onto the wire for a config
WireRequest(cfg) ==
    [method |-> cfg.method, url |-> cfg.url, data |-> cfg.data,
     headers |-> cfg.headers]

NoConfig ==
    [method |-> "", url |-> "", data |-> "", headers |-> {}, retryCount |-> 0]

\* ------------------------------------------------------------------------
\* State
\* ------------------------------------------------------------------------
VARIABLES
    cfgRetries,     \* config.retries
    cfgRetryDelay,  \* config.retryDelay
    callState,      \* PENDING, IN_FLIGHT, RETRYING, SUCCESS, FAILED
    verb,           \* the verb of the call
    validateOpt,    \* the validateStatus the caller passed
    retryCount,     \* config.__retryCount || 0
    inFlight,       \* dispatches of this request without an outcome yet
    attempts,       \* dispatches of this request so far
    retryEvents,    \* how often the call entered RETRYING
    backoffDelay,   \* the delay of the pending setTimeout, ms
    backoffK,       \* the retryCount calculateBackoff was called with
    lastFailure,    \* the failure handleRequestError handled last
    lastCount,      \* the retryCount it read
    lastDecision,   \* "none", "retry" or "throw"
    all5xx,         \* every outcome so far was a response with status >= 500
    raised,         \* the error the verb rejected with, or NoError
    resolvedStatus  \* response.status of the response the verb resolved with

httpVars == <<cfgRetries, cfgRetryDelay, callState, verb, validateOpt,
              retryCount, inFlight, attempts, retryEvents, backoffDelay,
              backoffK, lastFailure, lastCount, lastDecision, all5xx, raised,
              resolvedStatus>>

VARIABLES
    now,            \* Date.now(), ms
    token,          \* AuthHandler.token
    authPc,         \* per caller: idle, fetching, returned, threw
    authInFlight,   \* token requests of the handler without an answer yet
    authCalls,      \* token requests of the handler so far
    authResult,     \* per caller: the token getValidToken returned
    authError,      \* per caller: the error getValidToken threw
    authSeenToken,  \* per caller: this.token when the call tested it
    authSeenNow,    \* per caller: Date.now() of that test
    authSeenCalls,  \* per caller: successful fetches before that test
    authFetched,    \* successful fetches so far
    authChoice      \* per caller: none, cached, refresh

authVars == <<token, authPc, authInFlight, authCalls, authResult, authError,
              authSeenToken, authSeenNow, authSeenCalls, authFetched,
              authChoice>>

VARIABLES
    jwt,            \* per session: the token the jwt callback returned last
    refreshPromise, \* TokenManager.refreshPromise: 0 is null, else an index
    tmPromises,     \* the promises performTokenRefresh has returned
    tmPc,           \* per session: idle, awaitOwn, awaitShared, returned
    tmAwait,        \* per session: the promise it awaits
    tmInFlight,     \* refresh requests without an answer yet
    tmCalls,        \* refresh requests so far
    tmSeenExpires,  \* per session: accessTokenExpires the callback tested
    tmSeenNow,      \* per session: Date.now() of that test
    tmChoice        \* per session: none, kept, refresh

tmVars == <<jwt, refreshPromise, tmPromises, tmPc, tmAwait, tmInFlight,
            tmCalls, tmSeenExpires, tmSeenNow, tmChoice>>

VARIABLES
    errOp,          \* the function of the error layer applied last
    errIn,          \* the error it was applied to
    errCtx,         \* the context it was given
    errMarket,      \* the market code it was given
    errOut,         \* the error it threw or returned
    errBool,        \* the boolean it returned
    errResp,        \* the response it was given
    errFields,      \* the required fields it was given
    errRet,         \* the response it returned
    errObj,         \* the error object under classification, as it is now
    errPrev,        \* that object as it was before the last classification
    errNorms,       \* the normalized errors of the classifications so far
    errFile,        \* the file whose registry was read
    errCode,        \* the code it was read for
    errEntry        \* the entry that came back

\* what the validation of a response reads and writes
errRespVars == <<errResp, errFields, errRet>>

\* what repeated classification reads and writes
errObjVars == <<errObj, errPrev, errNorms>>

\* what a registry lookup reads and writes
errLookupVars == <<errFile, errCode, errEntry>>

errVars ==
    <<errOp, errIn, errCtx, errMarket, errOut, errBool, errRespVars, errObjVars,
      errLookupVars>>

VARIABLES
    svcPc,          \* getTrack: idle, auth, transport, resolved, rejected
    svcId,          \* the track id of the call
    svcMarket,      \* the market of the call, <<>> when omitted
    svcTokenAsked,  \* calls of auth.getAuthHeader() so far
    svcFirst,       \* the error as it was first thrown
    svcRequestErr,  \* the error BaseService.request threw
    svcRaised,      \* the error getTrack rejected with
    svcResult       \* what getTrack resolved to

svcVars == <<svcPc, svcId, svcMarket, svcTokenAsked, svcFirst,
             svcRequestErr, svcRaised, svcResult>>

VARIABLES
    wirePc,         \* idle, intercept, sent, backoff, done, failed
    wireCfg,        \* the request config the interceptors are handed
    wireSent,       \* the requests dispatched so far
    wireLog,        \* the entries handed to the logger so far
    wireToken       \* the access token the AuthHandler holds

wireVars == <<wirePc, wireCfg, wireSent, wireLog, wireToken>>

\* the state of the transport's call model, the token handlers, the error
\* layer and the track service
baseVars == <<httpVars, now, authVars, tmVars, errVars, svcVars>>

VARIABLES
    plPc,           \* getPlaylist: idle, auth, transport, resolved, rejected
    plId,           \* the playlist id of the call
    plTokenAsked,   \* calls of auth.getAuthHeader() so far
    plRaised,       \* the error getPlaylist rejected with
    plResult,       \* what the call resolved to
    plOp,           \* the method of PlaylistService that was called
    plBody          \* the body this.request resolved with

plVars == <<plPc, plId, plTokenAsked, plRaised, plResult, plOp, plBody>>

VARIABLES
    handlers,       \* the outcome of every `new AuthHandler(config, logger)`
    tokenPosts,     \* the POSTs to a token endpoint so far
    validated       \* what validateAuthConfig returned or threw

ctorVars == <<handlers, tokenPosts, validated>>

VARIABLES
    reqs            \* per logical request: its position, config.__retryCount,
                    \* the dispatches made for it, the kind of its last failure

reqVars == <<reqs>>

moreVars == <<wireVars, plVars, ctorVars, reqVars>>

upperVars == <<errVars, svcVars, moreVars>>

vars == <<httpVars, now, authVars, tmVars, upperVars>>

\* ------------------------------------------------------------------------
\* HttpClient: the life of one logical request
\* ------------------------------------------------------------------------
HttpInit ==
    /\ cfgRetries \in 0..MaxRetries
    /\ cfgRetryDelay \in RetryDelays
    /\ callState = "PENDING"
    /\ verb = "get"
    /\ validateOpt = "default"
    /\ retryCount = 0
    /\ inFlight = 0
    /\ attempts = 0
    /\ retryEvents = 0
    /\ backoffDelay = 0
    /\ backoffK = 0
    /\ lastFailure = NoFailure
    /\ lastCount = 0
    /\ lastDecision = "none"
    /\ all5xx = TRUE
    /\ raised = NoError
    /\ resolvedStatus = Undefined

\* get/post/put/delete(url, config): the first dispatch of the request
Call(v, opt) ==
    /\ callState = "PENDING"
    /\ callState' = "IN_FLIGHT"
    /\ verb' = v
    /\ validateOpt' = opt
    /\ inFlight' = inFlight + 1
    /\ attempts' = attempts + 1
    /\ UNCHANGED resolvedStatus
    /\ UNCHANGED <<cfgRetries, cfgRetryDelay, retryCount, retryEvents,
                   backoffDelay, backoffK, lastFailure, lastCount,
                   lastDecision, all5xx, raised>>
    /\ UNCHANGED <<now, authVars, tmVars, upperVars>>

\* a response validateStatus accepts: the verb returns response.data
AttemptSucceeds(status) ==
    /\ callState = "IN_FLIGHT"
    /\ ValidateStatus(validateOpt, status)
    /\ callState' = "SUCCESS"
    /\ inFlight' = inFlight - 1
    /\ all5xx' = FALSE
    /\ resolvedStatus' = status
    /\ UNCHANGED <<cfgRetries, cfgRetryDelay, verb, validateOpt, retryCount,
                   attempts, retryEvents, backoffDelay, backoffK, lastFailure,
                   lastCount, lastDecision, raised>>
    /\ UNCHANGED <<now, authVars, tmVars, upperVars>>

\* the response interceptor's error handler, when it decides to retry:
\* counter written, backoff computed, timer started
AttemptFailsRetry(f, jitter) ==
    /\ callState = "IN_FLIGHT"
    /\ lastFailure' = f
    /\ handleRequestError(f, retryCount, cfgRetries) = "retry"
    /\ callState' = "RETRYING"
    /\ inFlight' = inFlight - 1
    /\ retryCount' = NextRetryCount(retryCount)
    /\ retryEvents' = retryEvents + 1
    /\ backoffK' = retryCount
    /\ backoffDelay' = calculateBackoff(cfgRetryDelay, retryCount, jitter)
    /\ lastCount' = retryCount
    /\ lastDecision' = "retry"
    /\ all5xx' = (all5xx /\ f.hasResponse /\ f.status >= 500)
    /\ UNCHANGED resolvedStatus
    /\ UNCHANGED <<cfgRetries, cfgRetryDelay, verb, validateOpt, attempts,
                   raised>>
    /\ UNCHANGED <<now, authVars, tmVars, upperVars>>

\* the response interceptor's error handler, when it gives up: the
\* transformed error rejects the chain and passes the verb's catch block
AttemptFailsThrow(f) ==
    /\ callState = "IN_FLIGHT"
    /\ lastFailure' = f
    /\ handleRequestError(f, retryCount, cfgRetries) = "throw"
    /\ callState' = "FAILED"
    /\ inFlight' = inFlight - 1
    /\ raised' = VerbCatch(transformError(f), f)
    /\ lastCount' = retryCount
    /\ lastDecision' = "throw"
    /\ all5xx' = (all5xx /\ f.hasResponse /\ f.status >= 500)
    /\ UNCHANGED resolvedStatus
    /\ UNCHANGED <<cfgRetries, cfgRetryDelay, verb, validateOpt, retryCount,
                   attempts, retryEvents, backoffDelay, backoffK>>
    /\ UNCHANGED <<now, authVars, tmVars, upperVars>>

\* the setTimeout of the backoff fires: this.client.request(config)
BackoffElapsed ==
    /\ callState = "RETRYING"
    /\ callState' = "IN_FLIGHT"
    /\ inFlight' = inFlight + 1
    /\ attempts' = attempts + 1
    /\ backoffDelay' = 0
    /\ UNCHANGED resolvedStatus
    /\ UNCHANGED <<cfgRetries, cfgRetryDelay, verb, validateOpt, retryCount,
                   retryEvents, backoffK, lastFailure,
                   lastCount, lastDecision, all5xx, raised>>
    /\ UNCHANGED <<now, authVars, tmVars, upperVars>>

\* the outcome of the dispatch that is in flight
AttemptOutcome ==
    \/ \E s \in Statuses : AttemptSucceeds(s)
    \/ \E f \in FailuresFor(validateOpt), j \in JitterOf(cfgRetryDelay) :
          AttemptFailsRetry(f, j)
    \/ \E f \in FailuresFor(validateOpt) : AttemptFailsThrow(f)

HttpNext ==
    \/ \E v \in Verbs, opt \in ValidateOptions : Call(v, opt)
    \/ AttemptOutcome
    \/ BackoffElapsed

\* ------------------------------------------------------------------------
\* AuthHandler
\* ------------------------------------------------------------------------
AuthInit ==
    /\ now = 0
    /\ token = NoToken
    /\ authPc = [c \in Callers |-> "idle"]
    /\ authInFlight = 0
    /\ authCalls = 0
    /\ authResult = [c \in Callers |-> NoToken]
    /\ authError = [c \in Callers |-> NoError]
    /\ authSeenToken = [c \in Callers |-> NoToken]
    /\ authSeenNow = [c \in Callers |-> 0]
    /\ authSeenCalls = [c \in Callers |-> 0]
    /\ authFetched = 0
    /\ authChoice = [c \in Callers |-> "none"]

\* getValidToken, token held and not expired: return this.token
GetValidTokenCached(c) ==
    /\ authPc[c] = "idle"
    /\ ~(token = NoToken \/ isTokenExpired(token, now))
    /\ authPc' = [authPc EXCEPT ![c] = "returned"]
    /\ authResult' = [authResult EXCEPT ![c] = token]
    /\ authError' = [authError EXCEPT ![c] = NoError]
    /\ authSeenToken' = [authSeenToken EXCEPT ![c] = token]
    /\ authSeenNow' = [authSeenNow EXCEPT ![c] = now]
    /\ authSeenCalls' = [authSeenCalls EXCEPT ![c] = authFetched]
    /\ authChoice' = [authChoice EXCEPT ![c] = "cached"]
    /\ UNCHANGED <<now, token, authInFlight, authCalls, authFetched>>
    /\ UNCHANGED <<httpVars, tmVars, upperVars>>

\* getValidToken, no token or expired: fetchNewToken posts to the endpoint
GetValidTokenFetch(c) ==
    /\ authPc[c] = "idle"
    /\ (token = NoToken \/ isTokenExpired(token, now))
    /\ authCalls < MaxTokenCalls
    /\ authPc' = [authPc EXCEPT ![c] = "fetching"]
    /\ authInFlight' = authInFlight + 1
    /\ authCalls' = authCalls + 1
    /\ authError' = [authError EXCEPT ![c] = NoError]
    /\ authSeenToken' = [authSeenToken EXCEPT ![c] = token]
    /\ authSeenNow' = [authSeenNow EXCEPT ![c] = now]
    /\ authSeenCalls' = [authSeenCalls EXCEPT ![c] = authFetched]
    /\ authChoice' = [authChoice EXCEPT ![c] = "refresh"]
    /\ UNCHANGED <<now, token, authResult, authFetched>>
    /\ UNCHANGED <<httpVars, tmVars, upperVars>>

\* the endpoint answers 2xx with access_token: this.token = the new token
AuthFetchSucceeds(c, expires_in) ==
    /\ authPc[c] = "fetching"
    /\ authInFlight' = authInFlight - 1
    /\ authFetched' = authFetched + 1
    /\ token' = AuthToken(authFetched + 1, now, expires_in)
    /\ authResult' = [authResult EXCEPT ![c] = token']
    /\ authPc' = [authPc EXCEPT ![c] = "returned"]
    /\ UNCHANGED <<now, authCalls, authError, authSeenToken, authSeenNow,
                   authSeenCalls, authChoice>>
    /\ UNCHANGED <<httpVars, tmVars, upperVars>>

\* a failed fetch that posts to the endpoint a second time before giving up
AuthFetchFails_Retries(c, kind) ==
    /\ authPc[c] = "fetching"
    /\ IF authCalls < MaxTokenCalls
       THEN /\ authCalls' = authCalls + 1
            /\ UNCHANGED <<authInFlight, authError, authPc>>
       ELSE /\ authInFlight' = authInFlight - 1
            /\ authError' = [authError EXCEPT ![c] = AuthFailedError(kind)]
            /\ authPc' = [authPc EXCEPT ![c] = "threw"]
            /\ UNCHANGED authCalls
    /\ UNCHANGED <<now, token, authResult, authSeenToken,
                   authSeenNow, authSeenCalls, authFetched, authChoice>>
    /\ UNCHANGED <<httpVars, tmVars, upperVars>>

\* a failed fetch that also drops the cached token
AuthFetchFails_ClearsToken(c, kind) ==
    /\ authPc[c] = "fetching"
    /\ authInFlight' = authInFlight - 1
    /\ authError' = [authError EXCEPT ![c] = AuthFailedError(kind)]
    /\ authPc' = [authPc EXCEPT ![c] = "threw"]
    /\ token' = NoToken
    /\ UNCHANGED <<now, authCalls, authResult, authSeenToken,
                   authSeenNow, authSeenCalls, authFetched, authChoice>>
    /\ UNCHANGED <<httpVars, tmVars, upperVars>>

\* the token request fails: fetchNewToken throws, the assignment to
\* this.token is not reached
AuthFetchFails(c, kind) ==
    /\ authPc[c] = "fetching"
    /\ authInFlight' = authInFlight - 1
    /\ authError' = [authError EXCEPT ![c] = AuthFailedError(kind)]
    /\ authPc' = [authPc EXCEPT ![c] = "threw"]
    /\ UNCHANGED <<now, token, authCalls, authResult, authSeenToken,
                   authSeenNow, authSeenCalls, authFetched, authChoice>>
    /\ UNCHANGED <<httpVars, tmVars, upperVars>>

\* the caller has its answer and may call again
AuthCallEnds(c) ==
    /\ authPc[c] \in {"returned", "threw"}
    /\ authPc' = [authPc EXCEPT ![c] = "idle"]
    /\ authResult' = [authResult EXCEPT ![c] = NoToken]
    /\ authError' = [authError EXCEPT ![c] = NoError]
    /\ authSeenToken' = [authSeenToken EXCEPT ![c] = NoToken]
    /\ authSeenNow' = [authSeenNow EXCEPT ![c] = 0]
    /\ authSeenCalls' = [authSeenCalls EXCEPT ![c] = 0]
    /\ authChoice' = [authChoice EXCEPT ![c] = "none"]
    /\ UNCHANGED <<now, token, authInFlight, authCalls, authFetched>>
    /\ UNCHANGED <<httpVars, tmVars, upperVars>>

\* time passes
Tick ==
    /\ now < MaxTicks * TickMs
    /\ now' = now + TickMs
    /\ UNCHANGED <<httpVars, authVars, tmVars, upperVars>>

AuthNext ==
    \/ \E c \in Callers : GetValidTokenCached(c)
    \/ \E c \in Callers : GetValidTokenFetch(c)
    \/ \E c \in Callers, e \in ExpiresIn : AuthFetchSucceeds(c, e)
    \/ \E c \in Callers, k \in AuthFailureKinds : AuthFetchFails(c, k)
    \/ \E c \in Callers : AuthCallEnds(c)
    \/ Tick

\* ------------------------------------------------------------------------
\* TokenManager and the jwt callback
\* ------------------------------------------------------------------------
TmInit ==
    /\ jwt = [c \in Sessions |-> NoJwt]
    /\ refreshPromise = 0
    /\ tmPromises = <<>>
    /\ tmPc = [c \in Sessions |-> "idle"]
    /\ tmAwait = [c \in Sessions |-> 0]
    /\ tmInFlight = 0
    /\ tmCalls = 0
    /\ tmSeenExpires = [c \in Sessions |-> 0]
    /\ tmSeenNow = [c \in Sessions |-> 0]
    /\ tmChoice = [c \in Sessions |-> "none"]

\* jwt callback with an account: the initial sign-in
SignIn(c, expires_in) ==
    /\ tmPc[c] = "idle"
    /\ jwt[c] = NoJwt
    /\ jwt' = [jwt EXCEPT ![c] =
                  createTokenObject(<<c, 0>>, c, expires_in, now)]
    /\ UNCHANGED <<refreshPromise, tmPromises, tmPc, tmAwait, tmInFlight,
                   tmCalls, tmSeenExpires, tmSeenNow, tmChoice>>
    /\ UNCHANGED <<httpVars, now, authVars, upperVars>>

\* jwt callback, shouldRefreshToken is false: the token is returned as is
JwtKeep(c) ==
    /\ tmPc[c] = "idle"
    /\ jwt[c] # NoJwt
    /\ ~shouldRefreshToken(jwt[c], now)
    /\ tmPc' = [tmPc EXCEPT ![c] = "returned"]
    /\ tmSeenExpires' = [tmSeenExpires EXCEPT ![c] = jwt[c].accessTokenExpires]
    /\ tmSeenNow' = [tmSeenNow EXCEPT ![c] = now]
    /\ tmChoice' = [tmChoice EXCEPT ![c] = "kept"]
    /\ UNCHANGED <<jwt, refreshPromise, tmPromises, tmAwait, tmInFlight,
                   tmCalls>>
    /\ UNCHANGED <<httpVars, now, authVars, upperVars>>

\* jwt callback, refreshToken with no refresh in progress:
\* this.refreshPromise = this.performTokenRefresh(token)
JwtRefreshStart(c) ==
    /\ tmPc[c] = "idle"
    /\ jwt[c] # NoJwt
    /\ shouldRefreshToken(jwt[c], now)
    /\ refreshPromise = 0
    /\ tmCalls < MaxRefreshCalls
    /\ tmPromises' = Append(tmPromises, PendingPromise(jwt[c]))
    /\ refreshPromise' = Len(tmPromises) + 1
    /\ tmAwait' = [tmAwait EXCEPT ![c] = Len(tmPromises) + 1]
    /\ tmPc' = [tmPc EXCEPT ![c] = "awaitOwn"]
    /\ tmInFlight' = tmInFlight + 1
    /\ tmCalls' = tmCalls + 1
    /\ tmSeenExpires' = [tmSeenExpires EXCEPT ![c] = jwt[c].accessTokenExpires]
    /\ tmSeenNow' = [tmSeenNow EXCEPT ![c] = now]
    /\ tmChoice' = [tmChoice EXCEPT ![c] = "refresh"]
    /\ UNCHANGED jwt
    /\ UNCHANGED <<httpVars, now, authVars, upperVars>>

\* jwt callback, refreshToken while a refresh is in progress:
\* return this.refreshPromise
JwtRefreshJoin(c) ==
    /\ tmPc[c] = "idle"
    /\ jwt[c] # NoJwt
    /\ shouldRefreshToken(jwt[c], now)
    /\ refreshPromise # 0
    /\ tmAwait' = [tmAwait EXCEPT ![c] = refreshPromise]
    /\ tmPc' = [tmPc EXCEPT ![c] = "awaitShared"]
    /\ tmSeenExpires' = [tmSeenExpires EXCEPT ![c] = jwt[c].accessTokenExpires]
    /\ tmSeenNow' = [tmSeenNow EXCEPT ![c] = now]
    /\ tmChoice' = [tmChoice EXCEPT ![c] = "refresh"]
    /\ UNCHANGED <<jwt, refreshPromise, tmPromises, tmInFlight, tmCalls>>
    /\ UNCHANGED <<httpVars, now, authVars, upperVars>>

\* the token endpoint answers (or the fetch fails): the promise of
\* performTokenRefresh settles
RefreshSettles(p, outcome) ==
    /\ p \in 1..Len(tmPromises)
    /\ tmPromises[p].state = "pending"
    /\ LET r == performTokenRefresh(tmPromises[p].input, outcome, p, now)
       IN  tmPromises' = [tmPromises EXCEPT ![p] =
              [state |-> IF r.ok THEN "fulfilled" ELSE "rejected",
               input |-> tmPromises[p].input,
               value |-> r.value,
               error |-> r.error]]
    /\ tmInFlight' = tmInFlight - 1
    /\ UNCHANGED <<jwt, refreshPromise, tmPc, tmAwait, tmCalls,
                   tmSeenExpires, tmSeenNow, tmChoice>>
    /\ UNCHANGED <<httpVars, now, authVars, upperVars>>

\* the initiator resuming without the finally block
InitiatorResumes_NoFinally(c) ==
    /\ tmPc[c] = "awaitOwn"
    /\ tmPromises[tmAwait[c]].state # "pending"
    /\ jwt' = [jwt EXCEPT ![c] = JwtResult(jwt[c], tmPromises[tmAwait[c]])]
    /\ tmPc' = [tmPc EXCEPT ![c] = "returned"]
    /\ UNCHANGED <<refreshPromise, tmPromises, tmAwait, tmInFlight, tmCalls,
                   tmSeenExpires, tmSeenNow, tmChoice>>
    /\ UNCHANGED <<httpVars, now, authVars, upperVars>>

\* the caller that started the refresh resumes after its await: the finally
\* block clears refreshPromise and the callback returns
InitiatorResumes(c) ==
    /\ tmPc[c] = "awaitOwn"
    /\ tmPromises[tmAwait[c]].state # "pending"
    /\ refreshPromise' = 0
    /\ jwt' = [jwt EXCEPT ![c] = JwtResult(jwt[c], tmPromises[tmAwait[c]])]
    /\ tmPc' = [tmPc EXCEPT ![c] = "returned"]
    /\ UNCHANGED <<tmPromises, tmAwait, tmInFlight, tmCalls, tmSeenExpires,
                   tmSeenNow, tmChoice>>
    /\ UNCHANGED <<httpVars, now, authVars, upperVars>>

\* a caller that was handed the promise in progress resumes
JoinerResumes(c) ==
    /\ tmPc[c] = "awaitShared"
    /\ tmPromises[tmAwait[c]].state # "pending"
    /\ jwt' = [jwt EXCEPT ![c] = JwtResult(jwt[c], tmPromises[tmAwait[c]])]
    /\ tmPc' = [tmPc EXCEPT ![c] = "returned"]
    /\ UNCHANGED <<refreshPromise, tmPromises, tmAwait, tmInFlight, tmCalls,
                   tmSeenExpires, tmSeenNow, tmChoice>>
    /\ UNCHANGED <<httpVars, now, authVars, upperVars>>

\* the callback has returned; the session may call it again
JwtEnds(c) ==
    /\ tmPc[c] = "returned"
    /\ tmPc' = [tmPc EXCEPT ![c] = "idle"]
    /\ tmAwait' = [tmAwait EXCEPT ![c] = 0]
    /\ tmSeenExpires' = [tmSeenExpires EXCEPT ![c] = 0]
    /\ tmSeenNow' = [tmSeenNow EXCEPT ![c] = 0]
    /\ tmChoice' = [tmChoice EXCEPT ![c] = "none"]
    /\ UNCHANGED <<jwt, refreshPromise, tmPromises, tmInFlight, tmCalls>>
    /\ UNCHANGED <<httpVars, now, authVars, upperVars>>

TmNext ==
    \/ \E c \in Sessions, e \in SessionExpiresIn : SignIn(c, e)
    \/ \E c \in Sessions : JwtKeep(c)
    \/ \E c \in Sessions : JwtRefreshStart(c)
    \/ \E c \in Sessions : JwtRefreshJoin(c)
    \/ \E p \in 1..MaxRefreshCalls, o \in RefreshOutcomes : RefreshSettles(p, o)
    \/ \E c \in Sessions : InitiatorResumes(c)
    \/ \E c \in Sessions : JoinerResumes(c)
    \/ \E c \in Sessions : JwtEnds(c)
    \/ Tick

\* ------------------------------------------------------------------------
\* The error layer: its functions applied to errors of bounded sets
\* ------------------------------------------------------------------------
ErrorStatuses == {Undefined, 400, 401, 403, 404, 429, 500, 503}

\* data.error.message of the errors in use
UpstreamMessages ==
    {"", "Invalid market code", "Invalid base62 id",
     "Invalid id: track not found", "Internal server error"}

\* errors a caller can hand to the error layer: objects of the classes of
\* spotify-errors.ts, objects of the class of errors.ts, a plain Error
ErrorInputs ==
    {ServiceError(SpotifyErrorsTs, "SpotifyHttpError", "Request failed", sc, c,
                  Undefined, d, NoContext) :
        sc \in ErrorStatuses, c \in ERROR_CODES, d \in UpstreamMessages}
    \cup {ServiceError(ErrorsTs, "SpotifyHttpError", "Request failed", sc, c,
                       Undefined, "", NoContext) :
            sc \in ErrorStatuses, c \in {"NETWORK_ERROR", "UNKNOWN_ERROR"}}
    \cup {ServiceError(PlainJs, "Error", "Authentication failed", Undefined,
                       NoCode, Undefined, "", NoContext)}

\* upstream error envelopes {error: {message, status}} handed over as they
\* are
EnvelopeInputs ==
    {ServiceError(PlainJs, "SpotifyErrorResponse", "", sc, NoCode, Undefined,
                  d, NoContext) :
        sc \in {404, 500}, d \in UpstreamMessages \ {""}}

\* what createFromError is handed: errors of either class with and without
\* a status, a plain Error, envelopes
ClassifyInputs ==
    {e \in ErrorInputs : e.statusCode \in {Undefined, 400, 500}
                            /\ e.dataError = ""}
    \cup EnvelopeInputs

ContextInputs ==
    {RequestContext("track")}
    \cup {TrackContext(id, m) : id \in TrackIds, m \in {<<>>, MARKETS.US}}

\* the contexts createFromError is handed; NoContext is an omitted context
ClassifyContexts ==
    ContextInputs \cup {NoContext, RequestContext("playlist")}

ErrInit ==
    /\ errOp = "none"
    /\ errIn = NoServiceError
    /\ errCtx = NoContext
    /\ errMarket = <<>>
    /\ errOut = NoServiceError
    /\ errBool = FALSE
    /\ errResp = NoResponse
    /\ errFields = {}
    /\ errRet = NoResponse
    /\ errObj = NoServiceError
    /\ errPrev = NoServiceError
    /\ errNorms = <<>>
    /\ errFile = ""
    /\ errCode = NoCode
    /\ errEntry = NoEntry

\* ServiceErrorHandler.handleError(error, context)
ApplyHandleError(error, context) ==
    /\ errOp = "none"
    /\ errOp' = "handleError"
    /\ errIn' = error
    /\ errCtx' = context
    /\ errOut' = handleError(error, context)
    /\ UNCHANGED <<errMarket, errBool, errRespVars, errObjVars, errLookupVars>>
    /\ UNCHANGED <<httpVars, now, authVars, tmVars, svcVars, moreVars>>

\* isRetryableError(error)
ApplyIsRetryableError(error) ==
    /\ errOp = "none"
    /\ errOp' = "isRetryableError"
    /\ errIn' = error
    /\ errBool' = isRetryableError(error)
    /\ errCtx' = NoContext
    /\ errOut' = NoServiceError
    /\ UNCHANGED <<errMarket, errRespVars, errObjVars, errLookupVars>>
    /\ UNCHANGED <<httpVars, now, authVars, tmVars, svcVars, moreVars>>

\* ServiceErrorHandler.validateMarketCode(market)
ApplyValidateMarketCode(market) ==
    /\ errOp = "none"
    /\ errOp' = "validateMarketCode"
    /\ errMarket' = market
    /\ errBool' = validateMarketCode(market)
    /\ errIn' = NoServiceError
    /\ errCtx' = NoContext
    /\ errOut' = NoServiceError
    /\ UNCHANGED <<errRespVars, errObjVars, errLookupVars>>
    /\ UNCHANGED <<httpVars, now, authVars, tmVars, svcVars, moreVars>>

\* BaseService.validateRequiredFields(response, requiredFields) of a track
\* service: ServiceErrorHandler.validateResponse with createErrorContext()
ApplyValidateRequiredFields(response, requiredFields) ==
    /\ errOp = "none"
    /\ errOp' = "validateRequiredFields"
    /\ errResp' = response
    /\ errFields' = requiredFields
    /\ errCtx' = createErrorContext("track", "", "")
    /\ errOut' = validateResponse(response, requiredFields, errCtx')
    /\ errRet' = IF errOut' = NoServiceError THEN response ELSE NoResponse
    /\ UNCHANGED <<errIn, errMarket, errBool, errObjVars, errLookupVars>>
    /\ UNCHANGED <<httpVars, now, authVars, tmVars, svcVars, moreVars>>

\* an error is caught and is about to be classified
CatchError(error) ==
    /\ errOp = "none"
    /\ errOp' = "createFromError"
    /\ errIn' = error
    /\ errObj' = error
    /\ UNCHANGED <<errCtx, errMarket, errOut, errBool, errRespVars, errPrev,
                   errNorms, errLookupVars>>
    /\ UNCHANGED <<httpVars, now, authVars, tmVars, svcVars, moreVars>>

\* SpotifyHttpError.createFromError(error, context).toNormalizedError() on
\* the caught error; an error of the class is rewritten in place
ClassifyAndNormalize(context) ==
    /\ errOp = "createFromError"
    /\ Len(errNorms) < MaxInvocations
    /\ errPrev' = errObj
    /\ errCtx' = context
    /\ errOut' = createFromError(errObj, context)
    /\ errObj' = IF InstanceOfSpotifyHttpError(errObj) THEN errOut' ELSE errObj
    /\ errNorms' = Append(errNorms,
                          toNormalizedError(errOut', Len(errNorms) + 1))
    /\ UNCHANGED <<errOp, errIn, errMarket, errBool, errRespVars,
                   errLookupVars>>
    /\ UNCHANGED <<httpVars, now, authVars, tmVars, svcVars, moreVars>>

\* ERROR_REGISTRY[code] for a code of the enumeration of the same file
ApplyRegistryLookup(file, code) ==
    /\ errOp = "none"
    /\ errOp' = "registryLookup"
    /\ errFile' = file
    /\ errCode' = code
    /\ errEntry' = RegistryLookup(file, code)
    /\ UNCHANGED <<errIn, errCtx, errMarket, errOut, errBool, errRespVars,
                   errObjVars>>
    /\ UNCHANGED <<httpVars, now, authVars, tmVars, svcVars, moreVars>>

\* ErrorFactory.normalizeAxiosError(error): the code from the status, then
\* ERROR_REGISTRY[code] of the registry errors/index.ts exports
ApplyNormalizeAxiosError(f) ==
    /\ errOp = "none"
    /\ errOp' = "normalizeAxiosError"
    /\ errFile' = "constants.ts"
    /\ errCode' = determineErrorCode(f)
    /\ errEntry' = RegistryLookup("constants.ts", errCode')
    /\ UNCHANGED <<errIn, errCtx, errMarket, errOut, errBool, errRespVars,
                   errObjVars>>
    /\ UNCHANGED <<httpVars, now, authVars, tmVars, svcVars, moreVars>>

ErrNext ==
    \/ \E e \in ErrorInputs, c \in ContextInputs : ApplyHandleError(e, c)
    \/ \E e \in ErrorInputs : ApplyIsRetryableError(e)
    \/ \E m \in MarketInputs \ {<<>>} : ApplyValidateMarketCode(m)
    \/ \E r \in ResponseInputs, fs \in FieldInputs :
          ApplyValidateRequiredFields(r, fs)
    \/ \E e \in ClassifyInputs : CatchError(e)
    \/ \E file \in RegistryFiles : \E code \in CodesOf(file) :
          ApplyRegistryLookup(file, code)
    \/ \E f \in FailuresFor("default") \ {RawFailure} :
          ApplyNormalizeAxiosError(f)
    \/ \E c \in ClassifyContexts : ClassifyAndNormalize(c)

\* ------------------------------------------------------------------------
\* TrackService.getTrack over BaseService.request and the HttpClient
\* ------------------------------------------------------------------------
SvcInit ==
    /\ svcPc = "idle"
    /\ svcId = ""
    /\ svcMarket = <<>>
    /\ svcTokenAsked = 0
    /\ svcFirst = NoServiceError
    /\ svcRequestErr = NoServiceError
    /\ svcRaised = NoServiceError
    /\ svcResult = "none"

\* getTrack(id, market) up to its first await: prepareRequestParams either
\* throws into the catch block of getTrack or lets this.request start
GetTrack(id, market) ==
    /\ svcPc = "idle"
    /\ svcId' = id
    /\ svcMarket' = market
    /\ IF market # <<>> /\ ~validateMarketCode(market)
       THEN /\ svcFirst' = InvalidMarketError
            /\ svcRaised' = handleError(InvalidMarketError,
                                        TrackContext(id, market))
            /\ svcPc' = "rejected"
       ELSE /\ svcPc' = "auth"
            /\ UNCHANGED <<svcFirst, svcRaised>>
    /\ UNCHANGED <<svcTokenAsked, svcRequestErr, svcResult>>
    /\ UNCHANGED <<httpVars, now, authVars, tmVars, errVars, moreVars>>

\* request: await this.auth.getAuthHeader() returns the header
GetAuthHeaderReturns ==
    /\ svcPc = "auth"
    /\ svcPc' = "transport"
    /\ svcTokenAsked' = svcTokenAsked + 1
    /\ UNCHANGED <<svcId, svcMarket, svcFirst, svcRequestErr, svcRaised,
                   svcResult>>
    /\ UNCHANGED <<httpVars, now, authVars, tmVars, errVars, moreVars>>

\* request: getAuthHeader throws; the catch block of request and then the
\* catch block of getTrack hand the error to handleError
GetAuthHeaderThrows(kind) ==
    LET thrown == FromTransport(AuthFailedError(kind), NoFailure)
        byRequest == handleError(thrown, RequestContext("track"))
    IN  /\ svcPc = "auth"
        /\ svcTokenAsked' = svcTokenAsked + 1
        /\ svcFirst' = thrown
        /\ svcRequestErr' = byRequest
        /\ svcRaised' = handleError(byRequest, TrackContext(svcId, svcMarket))
        /\ svcPc' = "rejected"
        /\ UNCHANGED <<svcId, svcMarket, svcResult>>
        /\ UNCHANGED <<httpVars, now, authVars, tmVars, errVars, moreVars>>

\* request: this.http.get(endpoint, mergedConfig) with the validateStatus
\* of getTrack
RequestDispatch ==
    /\ svcPc = "transport"
    /\ Call("get", "okOr404")

RequestAttemptOutcome ==
    /\ svcPc = "transport"
    /\ AttemptOutcome

RequestBackoffElapsed ==
    /\ svcPc = "transport"
    /\ BackoffElapsed

\* http.get resolved: request returns the body and getTrack validates it
RequestReturns(response) ==
    LET thrown == validateTrackResponse(response)
    IN  /\ svcPc = "transport"
        /\ callState = "SUCCESS"
        /\ response.status = resolvedStatus
        /\ IF thrown = NoServiceError
           THEN /\ svcResult' = "track"
                /\ svcPc' = "resolved"
                /\ UNCHANGED <<svcFirst, svcRaised>>
           ELSE /\ svcFirst' = thrown
                /\ svcRaised' = handleError(thrown,
                                            TrackContext(svcId, svcMarket))
                /\ svcPc' = "rejected"
                /\ UNCHANGED svcResult
        /\ UNCHANGED <<svcId, svcMarket, svcTokenAsked, svcRequestErr>>
        /\ UNCHANGED <<httpVars, now, authVars, tmVars, errVars, moreVars>>

\* http.get rejected: the catch block of request and then the catch block
\* of getTrack hand the error to handleError
RequestThrows ==
    LET thrown == FromTransport(raised, lastFailure)
        byRequest == handleError(thrown, RequestContext("track"))
    IN  /\ svcPc = "transport"
        /\ callState = "FAILED"
        /\ svcFirst' = thrown
        /\ svcRequestErr' = byRequest
        /\ svcRaised' = handleError(byRequest, TrackContext(svcId, svcMarket))
        /\ svcPc' = "rejected"
        /\ UNCHANGED <<svcId, svcMarket, svcTokenAsked, svcResult>>
        /\ UNCHANGED <<httpVars, now, authVars, tmVars, errVars, moreVars>>

SvcNext ==
    \/ \E id \in TrackIds, m \in MarketInputs : GetTrack(id, m)
    \/ GetAuthHeaderReturns
    \/ \E k \in AuthFailureKinds : GetAuthHeaderThrows(k)
    \/ RequestDispatch
    \/ RequestAttemptOutcome
    \/ RequestBackoffElapsed
    \/ \E r \in TrackResponses : RequestReturns(r)
    \/ RequestThrows

\* ------------------------------------------------------------------------
\* PlaylistService.getPlaylist over BaseService.request
\* ------------------------------------------------------------------------
PlInit ==
    /\ plPc = "idle"
    /\ plId = NoPlaylistId
    /\ plTokenAsked = 0
    /\ plRaised = NoServiceError
    /\ plResult = "none"
    /\ plOp = "none"
    /\ plBody = NoResponse

\* getPlaylist(id) up to its first await: the format test either throws or
\* lets this.request start (params omitted)
GetPlaylist(id) ==
    /\ plPc = "idle"
    /\ plId' = id
    /\ plOp' = "getPlaylist"
    /\ IF ~IsPlaylistIdFormat(id)
       THEN /\ plRaised' = createError("INVALID_ID_FORMAT",
                                       "Invalid playlist ID: " \o id.text,
                                       id.text)
            /\ plPc' = "rejected"
       ELSE /\ plPc' = "auth"
            /\ UNCHANGED plRaised
    /\ UNCHANGED <<plTokenAsked, plResult, plBody>>
    /\ UNCHANGED <<baseVars, wireVars, ctorVars, reqVars>>

\* request: await this.auth.getAuthHeader() returns the header
PlGetAuthHeaderReturns ==
    /\ plPc = "auth"
    /\ plPc' = "transport"
    /\ plTokenAsked' = plTokenAsked + 1
    /\ UNCHANGED <<plId, plRaised, plResult, plOp, plBody>>
    /\ UNCHANGED <<baseVars, wireVars, ctorVars, reqVars>>

\* request: getAuthHeader throws into the catch block of request
PlGetAuthHeaderThrows(kind) ==
    /\ plPc = "auth"
    /\ plTokenAsked' = plTokenAsked + 1
    /\ plRaised' = handleError(FromTransport(AuthFailedError(kind), NoFailure),
                               RequestContext("playlist"))
    /\ plPc' = "rejected"
    /\ UNCHANGED <<plId, plResult, plOp, plBody>>
    /\ UNCHANGED <<baseVars, wireVars, ctorVars, reqVars>>

\* request: this.http.get(endpoint, mergedConfig); getPlaylist passes no
\* validateStatus
PlRequestDispatch ==
    /\ plPc = "transport"
    /\ Call("get", "default")

PlRequestAttemptOutcome ==
    /\ plPc = "transport"
    /\ AttemptOutcome

PlRequestBackoffElapsed ==
    /\ plPc = "transport"
    /\ BackoffElapsed

\* http.get resolved: request returns the body, getPlaylist looks for the id
\* and validates the playlist
PlRequestReturns(response) ==
    LET thrown == IF "id" \notin response.truthy
                  THEN createError("NOT_FOUND",
                                   "Playlist not found: " \o plId.text,
                                   plId.text)
                  ELSE validatePlaylistResponse(response)
    IN  /\ plPc = "transport"
        /\ plOp = "getPlaylist"
        /\ callState = "SUCCESS"
        /\ response.status = resolvedStatus
        /\ plBody' = response
        /\ IF thrown = NoServiceError
           THEN /\ plResult' = "playlist"
                /\ plPc' = "resolved"
                /\ UNCHANGED plRaised
           ELSE /\ plRaised' = thrown
                /\ plPc' = "rejected"
                /\ UNCHANGED plResult
        /\ UNCHANGED <<plId, plTokenAsked, plOp>>
        /\ UNCHANGED <<baseVars, wireVars, ctorVars, reqVars>>

\* http.get rejected: the catch block of request hands the error to
\* handleError; getPlaylist has no catch block of its own
PlRequestThrows ==
    /\ plPc = "transport"
    /\ callState = "FAILED"
    /\ plRaised' = handleError(FromTransport(raised, lastFailure),
                               RequestContext("playlist"))
    /\ plPc' = "rejected"
    /\ UNCHANGED <<plId, plTokenAsked, plResult, plOp, plBody>>
    /\ UNCHANGED <<baseVars, wireVars, ctorVars, reqVars>>

\* getUserPlaylists(userId, params) up to its first await:
\* validatePaginationParams either throws or lets this.request start
GetUserPlaylists(params) ==
    LET thrown == validatePaginationParams(params)
    IN  /\ plPc = "idle"
        /\ plOp' = "getUserPlaylists"
        /\ IF thrown # NoServiceError
           THEN /\ plRaised' = thrown
                /\ plPc' = "rejected"
           ELSE /\ plPc' = "auth"
                /\ UNCHANGED plRaised
        /\ UNCHANGED <<plId, plTokenAsked, plResult, plBody>>
        /\ UNCHANGED <<baseVars, wireVars, ctorVars, reqVars>>

\* http.get resolved: request returns the body, getUserPlaylists returns
\* what validatePagedResponse returns, which is the body itself
PlPagedRequestReturns(response) ==
    LET thrown == validatePagedResponse(response)
    IN  /\ plPc = "transport"
        /\ plOp = "getUserPlaylists"
        /\ callState = "SUCCESS"
        /\ response.status = resolvedStatus
        /\ plBody' = response
        /\ IF thrown = NoServiceError
           THEN /\ plResult' = response
                /\ plPc' = "resolved"
                /\ UNCHANGED plRaised
           ELSE /\ plRaised' = thrown
                /\ plPc' = "rejected"
                /\ UNCHANGED plResult
        /\ UNCHANGED <<plId, plTokenAsked, plOp>>
        /\ UNCHANGED <<baseVars, wireVars, ctorVars, reqVars>>

PlNext ==
    \/ \E id \in PlaylistIds : GetPlaylist(id)
    \/ \E params \in PaginationParams : GetUserPlaylists(params)
    \/ \E r \in PagedResponses : PlPagedRequestReturns(r)
    \/ PlGetAuthHeaderReturns
    \/ \E k \in AuthFailureKinds : PlGetAuthHeaderThrows(k)
    \/ PlRequestDispatch
    \/ PlRequestAttemptOutcome
    \/ PlRequestBackoffElapsed
    \/ \E r \in PlaylistResponses : PlRequestReturns(r)
    \/ PlRequestThrows

\* ------------------------------------------------------------------------
\* HttpClient: one request through the interceptors, with its config
\* ------------------------------------------------------------------------
WireInit ==
    /\ wirePc = "idle"
    /\ wireCfg = NoConfig
    /\ wireSent = <<>>
    /\ wireLog = <<>>
    /\ wireToken = "token1"

\* the config a verb of HttpClient builds: the headers of axios.create, then
\* the caller's
VerbConfig(v, headers) ==
    [method |-> v, url |-> "/tracks/id",
     data |-> IF v \in {"post", "put"} THEN "body" ELSE "",
     headers |-> Spread({<<"Content-Type", "application/json">>}, headers),
     retryCount |-> 0]

\* BaseService.request(method, endpoint, options): the auth header is
\* fetched once and merged over options.headers, then the verb is called
WireServiceRequest(v, optionHeaders) ==
    /\ wirePc = "idle"
    /\ wireCfg' = VerbConfig(v, Spread(optionHeaders, getAuthHeader(wireToken)))
    /\ wirePc' = "intercept"
    /\ UNCHANGED <<wireSent, wireLog, wireToken>>
    /\ UNCHANGED <<baseVars, plVars, ctorVars, reqVars>>

\* a caller that uses HttpClient directly with its own headers
WireDirectRequest(v, headers) ==
    /\ wirePc = "idle"
    /\ wireCfg' = VerbConfig(v, headers)
    /\ wirePc' = "intercept"
    /\ UNCHANGED <<wireSent, wireLog, wireToken>>
    /\ UNCHANGED <<baseVars, plVars, ctorVars, reqVars>>

\* the request interceptor logs the request; the adapter dispatches it
WireRequestInterceptor ==
    /\ wirePc = "intercept"
    /\ wireLog' = Append(wireLog,
                         LogEntry("request", sanitizeHeaders(wireCfg.headers)))
    /\ wireSent' = Append(wireSent, WireRequest(wireCfg))
    /\ wirePc' = "sent"
    /\ UNCHANGED <<wireCfg, wireToken>>
    /\ UNCHANGED <<baseVars, plVars, ctorVars, reqVars>>

\* the response interceptor logs an accepted response
WireResponse ==
    /\ wirePc = "sent"
    /\ wireLog' = Append(wireLog,
                         LogEntry("response", sanitizeHeaders(ResponseHeaders)))
    /\ wirePc' = "done"
    /\ UNCHANGED <<wireCfg, wireSent, wireToken>>
    /\ UNCHANGED <<baseVars, plVars, ctorVars, reqVars>>

\* handleRequestError decides to retry: the counter is written into the
\* config, the retry is logged, the timer is started
WireFailureRetry(f) ==
    /\ wirePc = "sent"
    /\ handleRequestError(f, wireCfg.retryCount, MaxRetries) = "retry"
    /\ wireCfg' = [wireCfg EXCEPT
                      !.retryCount = NextRetryCount(wireCfg.retryCount)]
    /\ wireLog' = Append(wireLog, LogEntry("retry", {}))
    /\ wirePc' = "backoff"
    /\ UNCHANGED <<wireSent, wireToken>>
    /\ UNCHANGED <<baseVars, plVars, ctorVars, reqVars>>

\* handleRequestError gives up
WireFailureThrow(f) ==
    /\ wirePc = "sent"
    /\ handleRequestError(f, wireCfg.retryCount, MaxRetries) = "throw"
    /\ wirePc' = "failed"
    /\ UNCHANGED <<wireCfg, wireSent, wireLog, wireToken>>
    /\ UNCHANGED <<baseVars, plVars, ctorVars, reqVars>>

\* the backoff timer fires: this.client.request(config) with the config of
\* the failed attempt, through the request interceptor again
WireBackoffElapsed ==
    /\ wirePc = "backoff"
    /\ wirePc' = "intercept"
    /\ UNCHANGED <<wireCfg, wireSent, wireLog, wireToken>>
    /\ UNCHANGED <<baseVars, plVars, ctorVars, reqVars>>

\* the AuthHandler replaces its token while the request is under way (a
\* refresh on behalf of another request)
WireTokenRotates ==
    /\ wirePc \in {"sent", "backoff"}
    /\ wireToken = "token1"
    /\ wireToken' = "token2"
    /\ UNCHANGED <<wirePc, wireCfg, wireSent, wireLog>>
    /\ UNCHANGED <<baseVars, plVars, ctorVars, reqVars>>

WireNext ==
    \/ \E v \in Verbs, hs \in OptionHeaders \ {{<<"authorization", "Basic abc">>}} :
          WireServiceRequest(v, hs)
    \/ \E v \in Verbs, hs \in OptionHeaders : WireDirectRequest(v, hs)
    \/ WireRequestInterceptor
    \/ WireResponse
    \/ \E f \in FailuresFor("default") : WireFailureRetry(f)
    \/ \E f \in FailuresFor("default") : WireFailureThrow(f)
    \/ WireBackoffElapsed
    \/ WireTokenRotates

\* ------------------------------------------------------------------------
\* AuthHandler: construction

CtorInit ==
    /\ handlers = <<>>
    /\ tokenPosts = <<>>
    /\ validated = NotValidated

\* new AuthHandler(config, logger): the constructor stores the
\* configuration, logs which fields are present and validates; a throw
\* leaves the caller without an instance
NewAuthHandler(config) ==
    /\ validated = NotValidated
    /\ Len(handlers) < MaxHandlers
    /\ handlers' = Append(handlers,
          [config |-> config,
           instance |-> validateConfig(config) = NoThrow,
           thrown |-> validateConfig(config),
           token |-> NoToken,
           initialized |-> FALSE,
           fetched |-> NoToken,
           asked |-> FALSE,
           header |-> {},
           error |-> NoError])
    /\ UNCHANGED <<tokenPosts, validated>>
    /\ UNCHANGED <<baseVars, wireVars, plVars, reqVars>>

\* fetchNewToken of handler i POSTs the credentials to config.tokenEndpoint
TokenPost(i) ==
    [handler |-> i,
     url |-> handlers[i].config.tokenEndpoint,
     basic |-> <<handlers[i].config.clientId,
                 handlers[i].config.clientSecret>>]

\* initialize(): `await this.fetchNewToken()`; the token fetchNewToken
\* returns is not assigned to this.token
Initialize(i, kind, expires_in) ==
    /\ handlers[i].instance
    /\ ~handlers[i].initialized
    /\ Len(tokenPosts) < MaxTokenCalls
    /\ tokenPosts' = Append(tokenPosts, TokenPost(i))
    /\ handlers' = [handlers EXCEPT ![i] =
          IF kind = "ok"
          THEN [@ EXCEPT !.initialized = TRUE,
                         !.fetched = AuthToken(Len(tokenPosts) + 1, now,
                                               expires_in),
                         !.error = NoError]
          ELSE [@ EXCEPT !.error = AuthFailedError(kind)]]
    /\ UNCHANGED validated
    /\ UNCHANGED <<baseVars, wireVars, plVars, reqVars>>

\* getAuthHeader() with a token that is held and not expired
GetAuthHeaderCached(i) ==
    /\ handlers[i].instance
    /\ ~isTokenExpired(handlers[i].token, now)
    /\ handlers' = [handlers EXCEPT ![i] =
          [@ EXCEPT !.asked = TRUE,
                    !.header = getAuthHeader(
                        AccessTokenText(handlers[i].token.accessToken)),
                    !.error = NoError]]
    /\ UNCHANGED <<tokenPosts, validated>>
    /\ UNCHANGED <<baseVars, wireVars, plVars, reqVars>>

\* getAuthHeader() with no token or an expired one: getValidToken assigns
\* what fetchNewToken returns to this.token
GetAuthHeaderFetch(i, kind, expires_in) ==
    /\ handlers[i].instance
    /\ isTokenExpired(handlers[i].token, now)
    /\ Len(tokenPosts) < MaxTokenCalls
    /\ tokenPosts' = Append(tokenPosts, TokenPost(i))
    /\ handlers' = [handlers EXCEPT ![i] =
          IF kind = "ok"
          THEN [@ EXCEPT !.asked = TRUE,
                         !.token = AuthToken(Len(tokenPosts) + 1, now,
                                             expires_in),
                         !.header = getAuthHeader(
                                        AccessTokenText(Len(tokenPosts) + 1)),
                         !.error = NoError]
          ELSE [@ EXCEPT !.asked = TRUE,
                         !.header = {},
                         !.error = AuthFailedError(kind)]]
    /\ UNCHANGED validated
    /\ UNCHANGED <<baseVars, wireVars, plVars, reqVars>>

\* validateAuthConfig, which nothing calls, applied on its own to one
\* configuration
ApplyValidateAuthConfig(config) ==
    /\ validated = NotValidated
    /\ handlers = <<>>
    /\ validated' = validateAuthConfig(config)
    /\ UNCHANGED <<handlers, tokenPosts>>
    /\ UNCHANGED <<baseVars, wireVars, plVars, reqVars>>

CtorNext ==
    \/ \E config \in AuthConfigs : NewAuthHandler(config)
    \/ \E i \in 1..MaxHandlers, k \in {"ok"} \cup AuthFailureKinds,
          e \in ExpiresIn :
          i <= Len(handlers) /\ Initialize(i, k, e)
    \/ \E i \in 1..MaxHandlers : i <= Len(handlers) /\ GetAuthHeaderCached(i)
    \/ \E i \in 1..MaxHandlers, k \in {"ok"} \cup AuthFailureKinds,
          e \in ExpiresIn :
          i <= Len(handlers) /\ GetAuthHeaderFetch(i, k, e)
    \/ \E config \in AuthConfigs : ApplyValidateAuthConfig(config)

\* the handlers' calls as time passes
HandlerNext ==
    \/ CtorNext
    \/ Tick

\* ------------------------------------------------------------------------
\* HttpClient: several logical requests at once

Requests == 1..NumRequests

\* whether handleRequestError retries a failure of this kind while budget
\* remains
RetryableKind(f) == handleRequestError(f, 0, 1) = "retry"

ReqInit ==
    reqs = [r \in Requests |->
              [pc |-> "idle", retryCount |-> 0, attempts |-> 0,
               lastKind |-> "none"]]

\* a verb is called: axios builds a config object for this request
ReqCall(r) ==
    /\ reqs[r].pc = "idle"
    /\ reqs' = [reqs EXCEPT ![r] =
                   [pc |-> "inflight", retryCount |-> 0, attempts |-> 1,
                    lastKind |-> "none"]]
    /\ UNCHANGED <<baseVars, wireVars, plVars, ctorVars>>

ReqSucceeds(r) ==
    /\ reqs[r].pc = "inflight"
    /\ reqs' = [reqs EXCEPT ![r].pc = "done"]
    /\ UNCHANGED <<baseVars, wireVars, plVars, ctorVars>>

\* a retry counter kept on the client instead of on the request's config
ReqFailsRetry_SharedCounter(r, f) ==
    /\ reqs[r].pc = "inflight"
    /\ handleRequestError(f, reqs[r].retryCount, cfgRetries) = "retry"
    /\ reqs' = [q \in Requests |->
                   IF q = r
                   THEN [reqs[q] EXCEPT
                            !.pc = "backoff",
                            !.retryCount = NextRetryCount(reqs[q].retryCount),
                            !.lastKind = "retryable"]
                   ELSE IF reqs[q].pc \in {"inflight", "backoff"}
                   THEN [reqs[q] EXCEPT
                            !.retryCount = NextRetryCount(reqs[q].retryCount)]
                   ELSE reqs[q]]
    /\ UNCHANGED <<baseVars, wireVars, plVars, ctorVars>>

\* handleRequestError retries: the counter is read from and written to the
\* config of the failed request, then the timer is started
ReqFailsRetry(r, f) ==
    /\ reqs[r].pc = "inflight"
    /\ handleRequestError(f, reqs[r].retryCount, cfgRetries) = "retry"
    /\ reqs' = [reqs EXCEPT
                   ![r].pc = "backoff",
                   ![r].retryCount = NextRetryCount(reqs[r].retryCount),
                   ![r].lastKind = "retryable"]
    /\ UNCHANGED <<baseVars, wireVars, plVars, ctorVars>>

\* handleRequestError gives up: the transformed error is thrown
ReqFailsThrow(r, f) ==
    /\ reqs[r].pc = "inflight"
    /\ handleRequestError(f, reqs[r].retryCount, cfgRetries) = "throw"
    /\ reqs' = [reqs EXCEPT
                   ![r].pc = "failed",
                   ![r].lastKind = IF RetryableKind(f) THEN "retryable"
                                   ELSE "final"]
    /\ UNCHANGED <<baseVars, wireVars, plVars, ctorVars>>

\* the timer fires: this.client.request(config) with the request's config
ReqBackoffElapsed(r) ==
    /\ reqs[r].pc = "backoff"
    /\ reqs' = [reqs EXCEPT ![r].pc = "inflight",
                            ![r].attempts = reqs[r].attempts + 1]
    /\ UNCHANGED <<baseVars, wireVars, plVars, ctorVars>>

ReqNext ==
    \/ \E r \in Requests : ReqCall(r)
    \/ \E r \in Requests : ReqSucceeds(r)
    \/ \E r \in Requests, f \in FailuresFor("default") : ReqFailsRetry(r, f)
    \/ \E r \in Requests, f \in FailuresFor("default") : ReqFailsThrow(r, f)
    \/ \E r \in Requests : ReqBackoffElapsed(r)

Init ==
    /\ HttpInit /\ AuthInit /\ TmInit /\ ErrInit /\ SvcInit /\ WireInit
    /\ PlInit /\ CtorInit /\ ReqInit

\* the transport with its default configuration, for the runs of the
\* other components
HttpIdle ==
    /\ HttpInit
    /\ cfgRetries = 3
    /\ cfgRetryDelay = 1000

InitIdle ==
    /\ HttpIdle /\ AuthInit /\ TmInit /\ ErrInit /\ SvcInit /\ WireInit
    /\ PlInit /\ CtorInit /\ ReqInit

SpecAuth == InitIdle /\ [][AuthNext]_vars

SpecTM == InitIdle /\ [][TmNext]_vars

SpecHttp == Init /\ [][HttpNext]_vars

\* one function of the error layer applied to one input
SpecErrors == InitIdle /\ [][ErrNext]_vars

\* one getTrack call through the service layer and the transport
SpecService == InitIdle /\ [][SvcNext]_vars

\* one getPlaylist call through the service layer and the transport
SpecPlaylist == InitIdle /\ [][PlNext]_vars

\* several logical requests at once through one HttpClient
SpecConcurrent == InitIdle /\ [][ReqNext]_vars

\* AuthHandlers constructed from any configuration, and their token calls
SpecConstruct == InitIdle /\ [][CtorNext]_vars

\* AuthHandlers from construction through initialize and getAuthHeader, with
\* tokens that expire
SpecHandler == InitIdle /\ [][HandlerNext]_vars

\* one request through the interceptors of the transport, with its config
\* and its log entries
SpecWire == InitIdle /\ [][WireNext]_vars

\* every dispatch gets an outcome and every backoff timer fires
SpecHttpLive ==
    /\ SpecHttp
    /\ WF_vars(AttemptOutcome)
    /\ WF_vars(BackoffElapsed)

\* ------------------------------------------------------------------------
\* Properties of the HTTP transport
\* ------------------------------------------------------------------------

\* C2: a request whose every attempt is answered with a status >= 500 makes
\* at most retries+1 attempts, fails after exactly retries+1 of them, and the
\* error it fails with has code SERVER_ERROR.
C2_ServerErrorAfterRetries ==
    /\ attempts <= cfgRetries + 1
    /\ (callState = "FAILED" /\ all5xx) =>
           /\ attempts = cfgRetries + 1
           /\ raised.class \in DomainErrorClasses
           /\ raised.code = "SERVER_ERROR"

C4_OnlyDomainErrors ==
    callState = "FAILED" => raised.class \in DomainErrorClasses

\* a request that was never sent, failing with an exception without config
C4_Witness ==
    /\ callState = "FAILED"
    /\ lastFailure = RawFailure

\* C5: for every retry index k and jitter draw,
\* baseDelay*2^k <= delay <= baseDelay*2^k + baseDelay and delay <= capDelay.
C5_BackoffBounds ==
    callState = "RETRYING" =>
        /\ cfgRetryDelay * Pow2(backoffK) <= backoffDelay
        /\ backoffDelay <= cfgRetryDelay * Pow2(backoffK) + cfgRetryDelay
        /\ backoffDelay <= CapDelay

\* C5 as amended: the bounds hold after capping, that is
\* min(baseDelay*2^k, capDelay) <= delay <= min(baseDelay*2^k + baseDelay,
\* capDelay).
C5_BackoffBoundsCapped ==
    callState = "RETRYING" =>
        /\ Min(cfgRetryDelay * Pow2(backoffK), CapDelay) <= backoffDelay
        /\ backoffDelay <=
              Min(cfgRetryDelay * Pow2(backoffK) + cfgRetryDelay, CapDelay)
        /\ backoffDelay <= CapDelay

\* a retry whose exponential delay alone exceeds the cap
C5_Witness ==
    /\ callState = "RETRYING"
    /\ cfgRetryDelay * Pow2(backoffK) > CapDelay
    /\ backoffDelay = CapDelay

\* C6: retries of one request are sequential: at most one attempt is in
\* flight, none while the backoff timer runs, attempt N+1 is issued only
\* after the outcome of attempt N and the backoff, and the counter grows by
\* exactly one per retry.
C6_SequentialRetries ==
    /\ inFlight <= 1
    /\ (callState = "IN_FLIGHT") <=> (inFlight = 1)
    /\ retryCount = retryEvents
    /\ callState = "RETRYING" => attempts = retryCount
    /\ callState \in {"IN_FLIGHT", "SUCCESS", "FAILED"} =>
           attempts = retryCount + 1

\* the second retry of a request is in flight
C6_Witness ==
    /\ callState = "IN_FLIGHT"
    /\ retryCount = 2
    /\ attempts = 3

\* C7: a call that was issued eventually reaches SUCCESS or FAILED, enters
\* RETRYING at most `retries` times, stays FAILED once FAILED with no further
\* attempt, and a FAILED call carries a SpotifyHttpError.
C7_CallTerminates ==
    /\ [](retryEvents <= cfgRetries)
    /\ [](callState = "FAILED" => raised.class \in DomainErrorClasses)
    /\ [][callState = "FAILED" =>
            (callState' = "FAILED" /\ attempts' = attempts)]_vars
    /\ (callState \in {"IN_FLIGHT", "RETRYING"}) ~>
            (callState \in {"SUCCESS", "FAILED"})

\* a call that failed after using up its whole retry budget
C7_Witness ==
    /\ callState = "FAILED"
    /\ cfgRetries > 0
    /\ retryEvents = cfgRetries

\* ------------------------------------------------------------------------
\* Properties of the AuthHandler
\* ------------------------------------------------------------------------

\* C1: callers that ask for a token concurrently while none is cached share
\* one token request: two token requests of one handler are never in flight
\* at once.
C1_SingleRefreshInFlight ==
    authInFlight <= 1

\* C8: a held token whose expiry is more than the safety margin away (60 s
\* in AuthHandler, 5 min in TokenManager) is returned without a token
\* request, and in every other case a refresh is triggered.
C8_RefreshIffWithinMargin ==
    /\ \A c \in Callers :
          authChoice[c] # "none" =>
              ((authChoice[c] = "cached") <=>
                  /\ authSeenToken[c] # NoToken
                  /\ authSeenToken[c].expiresAt - authSeenNow[c] > BufferTime)
    /\ \A c \in Sessions :
          tmChoice[c] # "none" =>
              ((tmChoice[c] = "kept") <=>
                  tmSeenExpires[c] - tmSeenNow[c] > RefreshMargin)

\* C9: a failed refresh does not mutate the cached token: the step in which
\* a fetch fails leaves this.token as it is, and unless another fetch has
\* succeeded meanwhile the handler still holds the token it held when the
\* failed refresh began.
C9_FailedRefreshKeepsToken ==
    /\ [][\A c \in Callers :
            (authPc[c] = "fetching" /\ authPc'[c] = "threw") =>
                token' = token]_vars
    /\ [](\A c \in Callers :
            (authPc[c] = "threw" /\ authSeenCalls[c] = authFetched) =>
                token = authSeenToken[c])

\* a refresh of a token inside the safety margin has failed and the token
\* is still held
C9_Witness ==
    \E c \in Callers :
        /\ authPc[c] = "threw"
        /\ authSeenToken[c] # NoToken
        /\ token = authSeenToken[c]

\* C10: every failure of a token refresh is raised as a SpotifyHttpError
\* whose code is AUTHENTICATION.
C10_RefreshFailureIsAuthenticationError ==
    \A c \in Callers :
        authPc[c] = "threw" =>
            /\ authError[c].class \in DomainErrorClasses
            /\ authError[c].code = AUTHENTICATION

\* C11: the token fetch is never retried internally: a call to the token
\* endpoint is issued only by the step that starts a refresh operation, one
\* call per operation, and the step in which the call fails hands the failure
\* to the caller at once, with no further call and no wait.
C11_NoInternalRetry ==
    [][/\ authCalls' # authCalls =>
            /\ authCalls' = authCalls + 1
            /\ \E c \in Callers :
                    authPc[c] = "idle" /\ authPc'[c] = "fetching"
       /\ \A c \in Callers :
            /\ (authPc[c] = "fetching" /\ authPc'[c] # "fetching") =>
                    /\ authCalls' = authCalls
                    /\ now' = now
                    /\ authPc'[c] \in {"returned", "threw"}
            /\ (authPc[c] = "threw" /\ authPc'[c] # "threw") =>
                    /\ authPc'[c] = "idle"
                    /\ authCalls' = authCalls]_vars

\* a refresh operation has failed after its single call and no call is
\* outstanding
C11_Witness ==
    \E c \in Callers :
        /\ authPc[c] = "threw"
        /\ authChoice[c] = "refresh"
        /\ authError[c] # NoError
        /\ authInFlight = 0
        /\ authCalls = 1

\* C12: every request that fails on a response with status 429, whatever
\* the body of that response, is raised with code RATE_LIMIT and a retry
\* delay of max(0, retry-after seconds * 1000) milliseconds, 0 when the
\* header is absent.
C12_RateLimitClassification ==
    (callState = "FAILED" /\ lastFailure.hasResponse
                          /\ lastFailure.status = 429) =>
        /\ raised.code = "RATE_LIMIT_ERROR"
        /\ raised.retryAfter =
               (IF lastFailure.retryAfter = NoHeader
                   \/ lastFailure.retryAfter < 0
                THEN 0 ELSE lastFailure.retryAfter * 1000)

\* C13: the code of the error a failed request is raised with is fixed by
\* the status of the failure alone, by the table 429 -> RATE_LIMIT,
\* 401 -> AUTHENTICATION, 404 -> NOT_FOUND, 400 -> VALIDATION,
\* >= 500 -> SERVER_ERROR, other 4xx -> UNKNOWN, no response -> NETWORK
\* (the table of determineErrorCode).
C13_ClassificationByStatus ==
    (callState = "FAILED" /\ lastFailure.hasConfig) =>
        /\ raised.class \in DomainErrorClasses
        /\ raised.code = determineErrorCode(lastFailure)

\* ------------------------------------------------------------------------
\* Properties of the error layer and of the service layer
\* ------------------------------------------------------------------------
\* C14: a status-400 error whose upstream message names the market is
\* classified INVALID_MARKET, one whose upstream message matches the
\* ID-format pattern is classified INVALID_ID, and only the remaining
\* status-400 errors are classified VALIDATION.
C14_BadRequestCodes ==
    (errOp = "handleError" /\ InstanceOfSpotifyHttpError(errIn)
                           /\ errIn.statusCode = 400) =>
        errOut.code =
            (IF Includes(errIn.dataError, "market") THEN "INVALID_MARKET"
             ELSE IF Includes(errIn.dataError, "invalid id")
                     \/ Includes(errIn.dataError, "base62")
             THEN "INVALID_ID_FORMAT"
             ELSE "VALIDATION_ERROR")

\* C15: isRetryable(error) is true exactly for the errors whose code is
\* RATE_LIMIT or NETWORK and the errors whose statusCode is >= 500.
C15_IsRetryable ==
    (errOp = "isRetryableError") =>
        (errBool <=>
            \/ errIn.code \in {"RATE_LIMIT_ERROR", "NETWORK_ERROR"}
            \/ errIn.statusCode >= 500)

\* C16: getTrack called with a market code that is not a valid market (not
\* two upper-case letters, or the placeholder that names no region) rejects
\* with code INVALID_MARKET and statusCode 400, and no token lookup and no
\* API request precede the rejection.  (The message of the rejection keeps
\* the words 'Invalid market code provided' in every case and is left out.)
C16_InvalidMarketRejected ==
    (svcPc # "idle" /\ svcMarket \notin {<<>>, MARKETS.US, MARKETS.GB}) =>
        /\ svcPc = "rejected"
        /\ svcRaised.code = "INVALID_MARKET"
        /\ svcRaised.statusCode = 400
        /\ svcTokenAsked = 0
        /\ attempts = 0

\* C17: validateMarketCode(code) is true if and only if the code is two
\* upper-case letters and names a recognized region; the placeholder XX is
\* rejected.
C17_ValidateMarketCode ==
    (errOp = "validateMarketCode") =>
        (errBool <=>
            /\ TwoUpperCaseLetters(errMarket)
            /\ errMarket \in {MARKETS.US, MARKETS.GB})

\* C18: a getTrack call whose transport request ends without any response
\* has used all of its attempts, and the error the caller receives is coded
\* NETWORK and carries the endpoint path of the failed request in its
\* context.
C18_NetworkErrorCarriesEndpoint ==
    (svcPc = "rejected" /\ callState = "FAILED"
                        /\ lastFailure = NoResponseFailure) =>
        /\ attempts = cfgRetries + 1
        /\ raised.code = "NETWORK_ERROR"
        /\ svcRaised.code = "NETWORK_ERROR"
        /\ \E key \in {"endpoint", "url", "path", "requestContext"} :
               HasKey(svcRaised.ctx, key)

C20_CodePreserved ==
    (svcPc = "rejected" /\ svcFirst.module \in {ErrorsTs, SpotifyErrorsTs}) =>
        svcRaised.code = svcFirst.code

\* C26: a rate-limit error exposes its retry-after value to the final
\* caller: when the transport gave up on a 429 answer and raised a rate-limit
\* error, the error getTrack rejects with carries the retryAfter the
\* transport extracted from that answer.
C26_RetryAfterExposed ==
    (svcPc = "rejected" /\ callState = "FAILED"
     /\ svcFirst.class = "SpotifyRateLimitError") =>
        /\ svcFirst.retryAfter = ParseRetryAfter(lastFailure.retryAfter)
        /\ svcRaised.retryAfter = svcFirst.retryAfter

\* C21: validateRequiredFields raises an error coded INVALID_RESPONSE
\* whenever one of the listed fields is absent or falsy in the response, and
\* returns the response it was given when every listed field is present.
C21_ValidateRequiredFields ==
    errOp = "validateRequiredFields" =>
        IF \E field \in errFields : field \notin errResp.truthy
        THEN /\ errOut # NoServiceError
             /\ errOut.code = "INVALID_RESPONSE"
             /\ errRet = NoResponse
        ELSE /\ errOut = NoServiceError
             /\ errRet = errResp

\* ------------------------------------------------------------------------
\* Properties of the transport's requests and log entries
\* ------------------------------------------------------------------------
\* C22: no log entry the transport hands to the logger for a request, a
\* response or a retry contains the value of a sensitive header: under every
\* authorization, cookie or API-key header name, whatever its letter case,
\* the entry holds the redaction marker.
C22_LogsRedacted ==
    \A i \in 1..Len(wireLog) :
        \A p \in wireLog[i].headers :
            IsSensitiveHeader(p[1]) => p[2] = Redacted

\* C23: normalizing the classification of a failure is deterministic: all
\* the normalized errors obtained from the same caught failure, whatever
\* contexts the classifications were given and however often the failure was
\* classified before, have the same code, statusCode and isRetryable (only
\* the timestamp and the context may differ).
C23_ClassifyDeterministic ==
    \A i, j \in 1..Len(errNorms) :
        /\ errNorms[i].code = errNorms[j].code
        /\ errNorms[i].statusCode = errNorms[j].statusCode
        /\ errNorms[i].isRetryable = errNorms[j].isRetryable

\* an error of the class has been classified twice, the second time after
\* the first had rewritten its context data, and the two normalized errors
\* differ in timestamp and context
C23_Witness ==
    /\ Len(errNorms) >= 2
    /\ InstanceOfSpotifyHttpError(errIn)
    /\ errIn.ctx = NoContext
    /\ errPrev.ctx # NoContext
    /\ errNorms[1].timestamp # errNorms[2].timestamp
    /\ errNorms[1].context # errNorms[2].context
    /\ errNorms[1].code = "SERVER_ERROR"
    /\ errNorms[2].isRetryable

\* C24: the error registry is complete and consistent: the lookup of any
\* code of the enumeration, and of any code the status classifier produces,
\* yields an entry, never undefined, and the entry's code field is the code
\* it was looked up under.
C24_RegistryComplete ==
    errOp \in {"registryLookup", "normalizeAxiosError"} =>
        /\ errEntry # NoEntry
        /\ errEntry.code = errCode

\* C25: classifying a failure that is already an error of the class, with a
\* supplied context, returns that error with code, statusCode and message
\* unchanged, and merges the context without overwriting: for every key
\* present both in the error's context data and in the supplied context the
\* value the error had is kept.
C25_ContextNotOverwritten ==
    (errOp = "createFromError" /\ Len(errNorms) >= 1
     /\ InstanceOfSpotifyHttpError(errPrev)) =>
        /\ errOut.code = errPrev.code
        /\ errOut.statusCode = errPrev.statusCode
        /\ errOut.message = errPrev.message
        /\ \A p \in errPrev.ctx :
              (\E q \in errCtx : q[1] = p[1]) => p \in errOut.ctx

\* ------------------------------------------------------------------------
\* Properties of the AuthHandler's construction

IsIncomplete(config) ==
    \/ Falsy(config.clientId)
    \/ Falsy(config.clientSecret)
    \/ Falsy(config.tokenEndpoint)

C27_InvalidPlaylistId ==
    (plPc # "idle" /\ plOp = "getPlaylist" /\ ~IsPlaylistIdFormat(plId)) =>
        /\ plPc = "rejected"
        /\ plRaised.code = "INVALID_ID_FORMAT"
        /\ plRaised.statusCode = 400
        /\ MessageContains(plRaised.message, "Invalid playlist ID format")
        /\ plTokenAsked = 0
        /\ attempts = 0

\* C28: getPlaylist for a well-formed id that the API answers with 404
\* rejects with an error of code PLAYLIST_NOT_FOUND and status 404 whose
\* message contains 'Playlist not found'.
C28_PlaylistNotFound ==
    (plPc \in {"resolved", "rejected"} /\ plOp = "getPlaylist"
     /\ IsPlaylistIdFormat(plId) /\ callState = "FAILED" /\ lastFailure.hasResponse
     /\ lastFailure.status = 404) =>
        /\ plPc = "rejected"
        /\ plRaised.code = "PLAYLIST_NOT_FOUND"
        /\ plRaised.statusCode = 404
        /\ MessageContains(plRaised.message, "Playlist not found")

\* ------------------------------------------------------------------------
\* Properties of the transport's retries

HasAuthHeader(headers) == \E p \in headers : p[1] = "Authorization"

\* the headers the next attempt is to carry: those of the attempt before,
\* with the bearer token replaced by the one the AuthHandler holds now
HeadersWithCurrentToken(headers, accessToken) ==
    IF HasAuthHeader(headers)
    THEN Spread(headers, getAuthHeader(accessToken))
    ELSE headers

\* C30: a retry re-issues the request of the attempt before it: same
\* method, URL and body, and the same headers except that the bearer token
\* is the AuthHandler's current one if it was rotated in the meantime;
\* between attempts nothing of the config changes but the attempt counter.
C30_RetrySameRequest ==
    [][/\ (wirePc = "intercept" /\ wirePc' = "sent" /\ Len(wireSent) > 0) =>
            /\ wireSent'[Len(wireSent')].method = wireSent[Len(wireSent)].method
            /\ wireSent'[Len(wireSent')].url = wireSent[Len(wireSent)].url
            /\ wireSent'[Len(wireSent')].data = wireSent[Len(wireSent)].data
            /\ wireSent'[Len(wireSent')].headers =
                  HeadersWithCurrentToken(wireSent[Len(wireSent)].headers,
                                          wireToken)
       /\ (wirePc = "sent" /\ wirePc' = "backoff") =>
            wireCfg' = [wireCfg EXCEPT !.retryCount = wireCfg'.retryCount]
      ]_vars

\* ------------------------------------------------------------------------
\* Properties of the TokenManager's shared refresh

\* C31: the token refreshToken(t) resolves to is derived from t: it carries
\* t's own refresh token and an access token obtained with it, so a session
\* whose callback has returned from a refresh never holds the refreshed
\* token of another session.
C31_RefreshedTokenIsOwn ==
    \A c \in Sessions :
        (tmPc[c] = "returned" /\ tmChoice[c] = "refresh"
         /\ tmPromises[tmAwait[c]].state = "fulfilled") =>
            /\ tmPromises[tmAwait[c]].input.refreshToken = c
            /\ jwt[c].refreshToken = c
            /\ jwt[c].accessToken \in {<<c, tmAwait[c]>>, NoAccessToken}

\* C32 as stated: the in-flight indicator is set exactly while a refresh
\* network call is outstanding.
C32_IndicatorWhileOutstanding ==
    /\ []((refreshPromise # 0) <=> (tmInFlight > 0))
    /\ [][\A c \in Sessions :
            (/\ tmPc[c] = "idle"
             /\ tmPc'[c] \in {"awaitOwn", "awaitShared"}
             /\ tmInFlight = 0) => tmCalls' = tmCalls + 1]_vars

\* C32: the in-flight indicator is set from the start of a refresh until the
\* caller that started it resumes after the refresh has settled, whether it
\* succeeded or failed; while a network call is outstanding the indicator
\* is set and names that call; a refresh requested while the indicator is
\* clear starts a new network call, and only a caller that arrives before
\* the initiator has resumed is handed the promise in progress.
C32_IndicatorUntilInitiatorResumes ==
    /\ []((refreshPromise # 0) <=> (\E c \in Sessions : tmPc[c] = "awaitOwn"))
    /\ [](tmInFlight > 0 =>
            /\ refreshPromise = Len(tmPromises)
            /\ tmPromises[refreshPromise].state = "pending")
    /\ [](\A p \in 1..Len(tmPromises) :
            p # refreshPromise => tmPromises[p].state # "pending")
    /\ [][\A c \in Sessions :
            /\ (tmPc[c] = "idle" /\ tmPc'[c] = "awaitOwn") =>
                 /\ refreshPromise = 0
                 /\ tmCalls' = tmCalls + 1
                 /\ tmAwait'[c] = Len(tmPromises) + 1
                 /\ tmPromises'[tmAwait'[c]].state = "pending"
            /\ (tmPc[c] = "idle" /\ tmPc'[c] = "awaitShared") =>
                 /\ tmAwait'[c] = refreshPromise
                 /\ \E d \in Sessions \ {c} :
                       tmPc[d] = "awaitOwn" /\ tmAwait[d] = refreshPromise
       ]_vars

\* a refresh has failed, its initiator has resumed, and a later refresh has
\* started a new network call
C32_Witness ==
    /\ Len(tmPromises) = 2
    /\ tmPromises[1].state = "rejected"
    /\ tmPromises[2].state = "pending"
    /\ refreshPromise = 2
    /\ tmInFlight = 1

\* ------------------------------------------------------------------------
\* Properties of the AuthHandler's initialization

\* C33: after initialize() has completed successfully the handler holds the
\* token it fetched: the first getAuthHeader() after it, made while that
\* token is outside the safety margin, returns `Bearer <that access token>`
\* and issues no token-endpoint call.
C33_InitializeKeepsToken ==
    [][\A i \in 1..Len(handlers) :
          (/\ handlers[i].initialized
           /\ ~handlers[i].asked
           /\ handlers'[i].asked
           /\ ~isTokenExpired(handlers[i].fetched, now)) =>
              /\ handlers'[i].header =
                    getAuthHeader(
                        AccessTokenText(handlers[i].fetched.accessToken))
              /\ tokenPosts' = tokenPosts]_vars

\* ------------------------------------------------------------------------
\* Properties of concurrent requests through one HttpClient

\* C34: the attempt counter is carried per request: a step of one request
\* leaves the counter, the attempts and the position of every other request
\* as they are; every request's counter counts its own retries only; and a
\* request that fails with a retryable failure has used its own whole budget
\* of retries + 1 attempts, whatever the other requests did.
C34_RetryBudgetsIndependent ==
    /\ [][\A r \in Requests :
            reqs'[r] # reqs[r] =>
                \A q \in Requests \ {r} : reqs'[q] = reqs[q]]_vars
    /\ [](\A r \in Requests :
            /\ reqs[r].attempts <= cfgRetries + 1
            /\ reqs[r].pc \in {"inflight", "done", "failed"} =>
                  reqs[r].retryCount = reqs[r].attempts - 1
            /\ reqs[r].pc = "backoff" =>
                  reqs[r].retryCount = reqs[r].attempts
            /\ (reqs[r].pc = "failed" /\ reqs[r].lastKind = "retryable") =>
                  reqs[r].attempts = cfgRetries + 1)

\* one request has used its whole budget and failed while another, started
\* meanwhile, is at its first retry
C34_Witness ==
    /\ reqs[1].pc = "failed"
    /\ reqs[1].lastKind = "retryable"
    /\ reqs[1].attempts = cfgRetries + 1
    /\ reqs[2].pc = "backoff"
    /\ reqs[2].retryCount = 1

\* ------------------------------------------------------------------------
\* Agreement of the transport's retry decision with the error registry

C36_NetworkErrorOnlyWithoutResponse ==
    callState = "FAILED" =>
        /\ lastFailure.hasResponse =>
              /\ raised.statusCode = lastFailure.status
              /\ raised.code # "NETWORK_ERROR"
        /\ raised.code = "NETWORK_ERROR" => ~lastFailure.hasResponse


\* ------------------------------------------------------------------------
\* Properties of getUserPlaylists
\* ------------------------------------------------------------------------
\* the page request resolved with has all four required fields and only
\* playlists among its items
WellFormedPage ==
    /\ plBody # NoResponse
    /\ PagedFields \subseteq plBody.present
    /\ plBody.itemTypes \subseteq {"playlist"}

\* C37: required-field validation accepts every response in which all listed
\* fields are present, whatever their values: a well-formed page of playlists
\* with offset 0 or total 0 (or an empty items list) passes validation and
\* getUserPlaylists returns it unchanged.
C37_PresentFieldsPass ==
    (plOp = "getUserPlaylists" /\ plPc \in {"resolved", "rejected"}
     /\ WellFormedPage) =>
        /\ plPc = "resolved"
        /\ plResult = plBody


\* ------------------------------------------------------------------------
\* Properties of getTrack for an unknown id
\* ------------------------------------------------------------------------
\* getTrack has settled and the only answer of the API, a 404, was accepted
\* by validateStatus
AnsweredNotFound ==
    /\ svcPc \in {"resolved", "rejected"}
    /\ callState = "SUCCESS"
    /\ resolvedStatus = 404
    /\ retryEvents = 0

\* C38: getTrack for an id that the API answers with 404, a status the call
\* declares acceptable at the transport, never resolves to a track: it
\* rejects with an error whose code is NOT_FOUND and whose statusCode is 404,
\* after exactly one network attempt.
C38_NotFoundTrackRejected ==
    AnsweredNotFound =>
        /\ svcPc = "rejected"
        /\ svcResult = "none"
        /\ svcRaised.code = "NOT_FOUND"
        /\ svcRaised.statusCode = 404
        /\ attempts = 1

====
